---- MODULE Spec2Model ----
(***************************************************************************)
(* Model of the DSA question generator: the generate endpoint              *)
(* (src/app/api/generate/route.ts) with its two response parsers, and the  *)
(* export endpoint (src/unnamed/part_002, src/app/api/sheets/route.ts).    *)
(*                                                                         *)
(* A text is a sequence of tokens.  A token is a piece of the text that    *)
(* the regular expressions of the parsers treat as a unit: a single        *)
(* character of content ("x", " ", "\n", ...) or a whole keyword           *)
(* ("Title:", "PYTHON_TEMPLATE:", ...).  The text is the concatenation of  *)
(* its tokens, and a record field is again a sequence of tokens.           *)
(***************************************************************************)
EXTENDS Integers, Sequences, FiniteSets, TLC

VARIABLES
    pc,          \* generate handler: "idle", "calling", "done"
    formData,    \* the request body read by request.json()
    text,        \* the completion returned by model.generateContent
    response,    \* the NextResponse of the generate handler
    genCalls,    \* calls made to model.generateContent for this request
    prompt,      \* the prompt of the call of model.generateContent
    xpc,         \* export handler: "idle", "header", "append", "done"
    xreq,        \* the export request body
    env,         \* process.env: which credentials are configured
    sheetCalls,  \* calls made to the spreadsheet backend for this request
    sheetErrors, \* the calls of this request the backend rejected, with the error
    sheet,       \* the rows of the destination sheet
    xresponse,   \* the NextResponse of the export handler
    uiFormData,          \* page: the formData state
    questions,           \* page: the questions state
    selectedQuestions,   \* page: the selectedQuestions state
    isGenerating,        \* page: the isGenerating state
    isSendingToSheet,    \* page: the isSendingToSheet state
    generateBody,        \* the body of the fetch of /api/generate in flight
    sheetsBody,          \* the body of the fetch of /api/sheets in flight
    batch,               \* the number of the batch in questions and its request
    exportedIds,         \* the records appended by the exports that succeeded
    outstanding,         \* the fetches of the page that have not settled, per endpoint
    hintIn,            \* a hint text handed to cleanHint
    hintResult,          \* what cleanHint returned, application after application
    gens,                \* the generate handlers running at the same time
    exps                 \* the export handlers running at the same time

vars == <<pc, formData, text, response, genCalls, prompt,
          xpc, xreq, env, sheetCalls, sheetErrors, sheet, xresponse,
          uiFormData, questions, selectedQuestions, isGenerating,
          isSendingToSheet, generateBody, sheetsBody, batch, exportedIds,
          outstanding, hintIn, hintResult, gens, exps>>
genVars == <<pc, formData, text, response, genCalls, prompt, env>>
exportVars == <<xpc, xreq, env, sheetCalls, sheetErrors, sheet, xresponse>>
uiVars == <<uiFormData, questions, selectedQuestions, isGenerating,
            isSendingToSheet, generateBody, sheetsBody, batch, exportedIds,
            outstanding>>
hintVars == <<hintIn, hintResult>>
conVars == <<gens, exps>>

(***************************************************************************)
(* Bounds of the model.                                                    *)
(***************************************************************************)
MaxBlocks == 6     \* "QUESTION n:" blocks in one completion
MaxLangs == 2      \* languages in one request
MaxRows == 2       \* questions in one export request
MaxSheetRows == 3  \* rows the sheet holds, the header row included

(***************************************************************************)
(* Tokens.                                                                 *)
(***************************************************************************)
NL == "\n"
SP == " "
FENCE == "'''"                   \* the code fence (three backquotes in the text)
DELIM == "QUESTION 1:"          \* what /QUESTION \d+:/i matches
QWORD == "QUESTION"             \* the bare word, matched by (?=...|QUESTION|...)

IsWs(t) == t \in {SP, NL}

Min(S) == CHOOSE m \in S : \A n \in S : m <= n
Max(S) == CHOOSE m \in S : \A n \in S : m >= n

\* String.prototype.trim on a token sequence
Trim(s) ==
    LET I == {i \in 1..Len(s) : ~IsWs(s[i])}
    IN  IF I = {} THEN <<>> ELSE SubSeq(s, Min(I), Max(I))

\* the first character of a token
FirstChar(t) == SubSeq(t, 1, 1)

\* a || b that keeps an empty a (the variant C4 is checked against)
keepEmpty(a, b) == a

\* a || b on strings: the empty string is falsy
OrElse(a, b) == IF a = <<>> THEN b ELSE a

(***************************************************************************)
(* Regular expressions.  A lookahead (?=...) is a record: toks, the        *)
(* keywords one of which must start at the position; nlnl, "\n\n" may      *)
(* start there; eos, "$"; always, an empty alternative, which matches      *)
(* anywhere.                                                               *)
(***************************************************************************)
LookAt(b, e, la) ==
    \/ la.always
    \/ la.eos /\ e = Len(b) + 1
    \/ e <= Len(b) /\ b[e] \in la.toks
    \/ la.nlnl /\ e + 1 <= Len(b) /\ b[e] = NL /\ b[e + 1] = NL

LA(toks, nlnl, eos, always) ==
    [toks |-> toks, nlnl |-> nlnl, eos |-> eos, always |-> always]

\* ([\s\S]+?)(?=la) or (.+?)(?=la) started at p: the position after the
\* shortest group, 0 when there is none.  excl holds what the class rejects.
EndFor(b, p, excl, la) ==
    LET X == IF excl = {} THEN {} ELSE {j \in p..Len(b) : b[j] \in excl}
        limit == IF X = {} THEN Len(b) + 1 ELSE Min(X)
        E == {e \in (p + 1)..limit : LookAt(b, e, la)}
    IN  IF E = {} THEN 0 ELSE Min(E)

\* the group captured from p, <<>> when none can be (a group is never empty)
GroupFrom(b, p, excl, la) ==
    IF p > Len(b) \/ b[p] \in excl THEN <<>>
    ELSE IF la.always THEN <<FirstChar(b[p])>>
    ELSE LET e == EndFor(b, p, excl, la)
         IN  IF e = 0 THEN <<>> ELSE SubSeq(b, p, e - 1)

\* the longest run of white space after position s
WsRun(b, s) ==
    LET N == {j \in (s + 1)..Len(b) : ~IsWs(b[j])}
    IN  IF N = {} THEN Len(b) - s ELSE Min(N) - s - 1

\* label\s*(group)(?=la) with the label at s: \s* is greedy and gives back
\* one character at a time; <<>> is "no match"
RECURSIVE GiveBack(_, _, _, _, _)
GiveBack(b, s, k, excl, la) ==
    LET g == GroupFrom(b, s + 1 + k, excl, la)
    IN  IF g # <<>> \/ k = 0 THEN g ELSE GiveBack(b, s, k - 1, excl, la)

CaptureAt(b, s, excl, la) == GiveBack(b, s, WsRun(b, s), excl, la)

\* block.match(/label\s*(group)(?=la)/i)?.[1]: the leftmost match
RECURSIVE MatchFrom(_, _, _, _, _)
MatchFrom(b, from, label, excl, la) ==
    LET L == {s \in from..Len(b) : b[s] = label}
        c == CaptureAt(b, Min(L), excl, la)
    IN  IF L = {} THEN <<>>
        ELSE IF c # <<>> THEN c
        ELSE MatchFrom(b, Min(L) + 1, label, excl, la)

Match(b, label, excl, la) == MatchFrom(b, 1, label, excl, la)

\* text.split(/QUESTION \d+:/i)
RECURSIVE Split(_)
Split(t) ==
    LET D == {i \in 1..Len(t) : t[i] = DELIM}
    IN  IF D = {} THEN <<t>>
        ELSE <<SubSeq(t, 1, Min(D) - 1)>> \o Split(SubSeq(t, Min(D) + 1, Len(t)))

\* .slice(1) of the pieces, each block trimmed as the loop does
questionBlocks(t) ==
    LET pieces == Split(t)
    IN  [i \in 1..(Len(pieces) - 1) |-> Trim(pieces[i + 1])]

(***************************************************************************)
(* cleanHint (the two copies in route.ts are the same text).  Each         *)
(* .replace(/.../g, '') is a pattern record; MatchEnd gives the position   *)
(* after the match that starts at i, 0 when none starts there.             *)
(***************************************************************************)
WordChars ==
    {"a", "b", "c", "d", "e", "f", "g", "h", "i", "j", "k", "l", "m",
     "n", "o", "p", "q", "r", "s", "t", "u", "v", "w", "x", "y", "z",
     "A", "B", "C", "D", "E", "F", "G", "H", "I", "J", "K", "L", "M",
     "N", "O", "P", "Q", "R", "S", "T", "U", "V", "W", "X", "Y", "Z",
     "0", "1", "2", "3", "4", "5", "6", "7", "8", "9", "_"}

\* the token starts with a \w character
WordStart(t) == FirstChar(t) \in WordChars

ParaEnd == LA({}, TRUE, TRUE, FALSE)        \* (?=\n\n|$)

\* the first position from p on where test holds, over a set of positions
FirstIn(P) == IF P = {} THEN 0 ELSE Min(P)

\* (class*?)(?=la) started at p: the position after the shortest run, 0 when
\* there is none
LazyEnd(s, p, excl, la) ==
    IF LookAt(s, p, la) THEN p ELSE EndFor(s, p, excl, la)

\* the keywords of the text in which /kw\s+\w+/i matches by itself
DefnInside(kw) == IF kw = "function" THEN {"FUNCTION TEMPLATES:"} ELSE {}

MatchEnd(s, i, pat) ==
    CASE pat.kind = "pair" ->          \* /open[\s\S]*?close/
           IF s[i] # pat.open THEN 0
           ELSE LET j == FirstIn({j \in (i + 1)..Len(s) : s[j] = pat.close})
                IN  IF j = 0 THEN 0 ELSE j + 1
      [] pat.kind = "comment" ->       \* /\*[\s\S]*?\*\//
           IF s[i] # "*" THEN 0
           ELSE LET j == FirstIn({j \in (i + 1)..(Len(s) - 1) :
                                     s[j] = "*" /\ s[j + 1] = "/"})
                IN  IF j = 0 THEN 0 ELSE j + 2
      [] pat.kind = "line" ->          \* /\/\/.*$/m
           IF ~(i < Len(s) /\ s[i] = "/" /\ s[i + 1] = "/") THEN 0
           ELSE Min({e \in (i + 2)..(Len(s) + 1) : e = Len(s) + 1 \/ s[e] = NL})
      [] pat.kind = "para" ->          \* /KEY[\s\S]*?(?=\n\n|$)/i
           IF s[i] # pat.open THEN 0
           ELSE Min({e \in (i + 1)..(Len(s) + 1) : LookAt(s, e, ParaEnd)})
      [] pat.kind = "defn" ->          \* /kw\s+\w+[\s\S]*?(?=\n\n|$)/i
           IF s[i] \in DefnInside(pat.open)
           THEN Min({e \in (i + 1)..(Len(s) + 1) : LookAt(s, e, ParaEnd)})
           ELSE IF s[i] # pat.open THEN 0
           ELSE LET w == i + WsRun(s, i) + 1
                IN  IF WsRun(s, i) = 0 \/ w > Len(s) \/ ~WordStart(s[w]) THEN 0
                    ELSE Min({e \in (w + 1)..(Len(s) + 1) : LookAt(s, e, ParaEnd)})
      [] pat.kind = "access" ->        \* /kw\s+.*?(?=\n\n|$)/i
           IF s[i] # pat.open THEN 0
           ELSE LET K == {k \in 1..WsRun(s, i) : LazyEnd(s, i + k + 1, {NL}, ParaEnd) # 0}
                IN  IF K = {} THEN 0 ELSE LazyEnd(s, i + Max(K) + 1, {NL}, ParaEnd)

\* s.replace(pat, '') with the g flag, from position i on
RECURSIVE RemoveFrom(_, _, _)
RemoveFrom(s, i, pat) ==
    IF i > Len(s) THEN <<>>
    ELSE IF MatchEnd(s, i, pat) # 0
         THEN RemoveFrom(s, MatchEnd(s, i, pat), pat)
         ELSE <<s[i]>> \o RemoveFrom(s, i + 1, pat)

RemoveAll(s, pat) == RemoveFrom(s, 1, pat)

Pair(o, c) == [kind |-> "pair", open |-> o, close |-> c]
Kind(k, o) == [kind |-> k, open |-> o, close |-> o]

\* the chain of replacements, in the order of the source
HintPatterns ==
    << Pair(FENCE, FENCE),
       Kind("para", "JAVA_TEMPLATE:"),
       Kind("para", "PYTHON_TEMPLATE:"),
       Kind("para", "JAVASCRIPT_TEMPLATE:"),
       Kind("para", "CPP_TEMPLATE:"),
       Kind("para", "CSHARP_TEMPLATE:"),
       Kind("para", "GO_TEMPLATE:"),
       Kind("para", "RUST_TEMPLATE:"),
       Kind("para", "TYPESCRIPT_TEMPLATE:"),
       Kind("comment", "*"),
       Kind("line", "/"),
       Pair("{", "}"),
       Pair("(", ")"),
       Kind("defn", "class"),
       Kind("defn", "function"),
       Kind("defn", "def"),
       Kind("access", "public"),
       Kind("access", "private") >>

RECURSIVE ApplyPatterns(_, _)
ApplyPatterns(s, n) ==
    IF n > Len(HintPatterns) THEN s
    ELSE ApplyPatterns(RemoveAll(s, HintPatterns[n]), n + 1)

\* String.length of a token sequence
RECURSIVE CharLen(_)
CharLen(s) == IF s = <<>> THEN 0 ELSE Len(Head(s)) + CharLen(Tail(s))

\* s.slice(0, n): a token the cut falls in is cut
RECURSIVE SliceChars(_, _)
SliceChars(s, n) ==
    IF s = <<>> \/ n <= 0 THEN <<>>
    ELSE IF Len(Head(s)) <= n
         THEN <<Head(s)>> \o SliceChars(Tail(s), n - Len(Head(s)))
         ELSE <<SubSeq(Head(s), 1, n)>>

HintMin == 10
HintMax == 200

\* cleaned.split(/[.!?]\s+/)[0]
FirstSentence(s) ==
    LET P == {i \in 1..(Len(s) - 1) : s[i] \in {".", "!", "?"} /\ IsWs(s[i + 1])}
    IN  IF P = {} THEN s ELSE SubSeq(s, 1, Min(P) - 1)

\* a window that takes its two ends in (the variant C22 is checked against)
cleanHintInclusive(hintText) ==
    IF hintText = <<>> THEN <<>>
    ELSE LET cleaned == Trim(ApplyPatterns(hintText, 1))
             firstSentence == FirstSentence(cleaned)
         IN  IF /\ firstSentence # <<>>
                /\ CharLen(firstSentence) >= HintMin
                /\ CharLen(firstSentence) <= HintMax
                /\ \A i \in 1..Len(firstSentence) : firstSentence[i] \notin {"{", "("}
             THEN firstSentence
             ELSE Trim(SliceChars(cleaned, HintMax))

cleanHint(hintText) ==
    IF hintText = <<>> THEN <<>>
    ELSE LET cleaned == Trim(ApplyPatterns(hintText, 1))
             firstSentence == FirstSentence(cleaned)
         IN  IF /\ firstSentence # <<>>
                /\ CharLen(firstSentence) > HintMin
                /\ CharLen(firstSentence) < HintMax
                /\ \A i \in 1..Len(firstSentence) : firstSentence[i] \notin {"{", "("}
             THEN firstSentence
             ELSE Trim(SliceChars(cleaned, HintMax))

(***************************************************************************)
(* Requests.                                                               *)
(***************************************************************************)
\* language names a request may carry: two of the eight the interface
\* offers and one it does not (the endpoint takes any string)
Languages == {"python", "java", "c++"}

\* String.prototype.toUpperCase
toUpperCase(l) ==
    CASE l = "python" -> "PYTHON"
      [] l = "java" -> "JAVA"
      [] l = "c++" -> "C++"
      [] l = "javascript" -> "JAVASCRIPT"
      [] OTHER -> l

\* new RegExp(source) throws a SyntaxError ("nothing to repeat") when the
\* unescaped name is put into the source
BadRegex(l) == l \in {"c++"}

\* the tokens in which /NAME/i finds the upper-cased name of l
NameTokens(l) ==
    {toUpperCase(l) \o "_TEMPLATE:", toUpperCase(l) \o "_IMPLEMENTATION:",
     toUpperCase(l), l}

Types == {"complete_code", "write_code"}

\* duplicate-free language lists of at most n names
LangLists(n) ==
    {ls \in UNION {[1..k -> Languages] : k \in 0..n} :
        \A a, b \in 1..Len(ls) : a # b => ls[a] # ls[b]}

\* the bodies request.json() may give: the language list may be missing
FormDatas ==
    [type : Types, hasLanguages : {TRUE}, languages : LangLists(MaxLangs)]
    \cup [type : Types, hasLanguages : {FALSE}, languages : {<<>>}]

Range(f) == {f[x] : x \in DOMAIN f}

(***************************************************************************)
(* Question records.  A field is a token sequence; '' is <<>>.             *)
(***************************************************************************)
Undefined == <<"<undefined>">>     \* a property the object does not have

Str(s) == <<s>>                    \* a string literal of the source

Question(id, title, ps, inf, outf, cons, sin, sout, lang, impl, hint) ==
    [id |-> id, title |-> title, problemStatement |-> ps,
     inputFormat |-> inf, outputFormat |-> outf, constraints |-> cons,
     sampleInput |-> sin, sampleOutput |-> sout,
     language |-> lang, implementation |-> impl, hint |-> hint]

\* an identifier is its "-"-separated segments
baseId(ts, i) == <<"question", ToString(ts), ToString(i)>>

\* Date.now() while block i is parsed: the clock stands still during the
\* parse (tick 0) or advances by a millisecond from block to block (tick 1)
Ticks == {0, 1}
DateNow(i, tick) == i * tick

OnlyTok(t) == LA({t}, FALSE, FALSE, FALSE)

\* lines 247-254 and 291-301: the fields of block b (number i, from 0)
baseQuestion(b, i, ts) ==
    Question(
        baseId(ts, i),
        OrElse(Trim(Match(b, "Title:", {NL}, OnlyTok(NL))),
               Str("Question " \o ToString(i + 1))),
        OrElse(Trim(Match(b, "Problem Statement:", {}, OnlyTok("Input Format:"))),
               Str("Problem statement not found")),
        OrElse(Trim(Match(b, "Input Format:", {}, OnlyTok("Output Format:"))),
               Str("Input format not specified")),
        OrElse(Trim(Match(b, "Output Format:", {}, OnlyTok("Constraints:"))),
               Str("Output format not specified")),
        OrElse(Trim(Match(b, "Constraints:", {}, OnlyTok("Sample Input:"))),
               Str("Constraints not specified")),
        OrElse(Trim(Match(b, "Sample Input:", {}, OnlyTok("Sample Output:"))),
               Str("Sample input not provided")),
        OrElse(Trim(Match(b, "Sample Output:", {},
                          LA({"Hint:", "COMPLETE IMPLEMENTATIONS:", "FUNCTION TEMPLATES:"},
                             FALSE, FALSE, FALSE))),
               Str("Sample output not provided")),
        Undefined,
        Undefined,
        cleanHint(OrElse(Trim(Match(b, "Hint:", {},
                                    LA({"COMPLETE IMPLEMENTATIONS:", "FUNCTION TEMPLATES:"},
                                       FALSE, TRUE, FALSE))),
                         <<>>)))

\* lines 305-307
langKey(fd, l) ==
    IF fd.type = "write_code"
    THEN toUpperCase(l) \o "_IMPLEMENTATION:"
    ELSE toUpperCase(l) \o "_TEMPLATE:"

\* the keys of the other requested languages (line 313-317)
otherKeys(fd, l) ==
    {langKey(fd, m) : m \in Range(fd.languages)} \ {langKey(fd, l)}

\* Pattern 1, lines 313-317: KEY\s*([\s\S]+?)(?=OTHERKEYS|QUESTION|$); with
\* no other language the alternation starts with an empty alternative
exactMatch(b, fd, l) ==
    Match(b, langKey(fd, l), {},
          LA(otherKeys(fd, l) \cup {QWORD}, FALSE, TRUE, otherKeys(fd, l) = {}))

\* the upper-cased names of the other requested languages (line 323)
otherNames(fd, l) ==
    {toUpperCase(m) : m \in Range(fd.languages)} \ {toUpperCase(l)}

\* Pattern 2, line 323-324: NAME[\s\S]*?\n([\s\S]+?)(?=\n\n|OTHERS|QUESTION|$)
langMatch(b, fd, l) ==
    LET la == LA(UNION {NameTokens(m) : m \in {m \in Range(fd.languages) :
                                                 toUpperCase(m) # toUpperCase(l)}}
                 \cup {QWORD},
                 TRUE, TRUE, otherNames(fd, l) = {})
        S == {s \in 1..Len(b) : b[s] \in NameTokens(l)}
        N == {n \in 1..Len(b) : /\ S # {}
                                /\ n > Min(S)
                                /\ b[n] = NL
                                /\ GroupFrom(b, n + 1, {}, la) # <<>>}
    IN  IF N = {} THEN <<>> ELSE GroupFrom(b, Min(N) + 1, {}, la)

\* Pattern 3, lines 330-333: /Hint:[\s\S]*?```[\s\S]*?```/i, then the text
\* between the two fences
codeBlockMatch(b) ==
    LET H == {h \in 1..Len(b) : b[h] = "Hint:"}
        F1 == {f \in 1..Len(b) : H # {} /\ f > Min(H) /\ b[f] = FENCE}
        F2 == {f \in 1..Len(b) : F1 # {} /\ f > Min(F1) /\ b[f] = FENCE}
    IN  IF F2 = {} THEN <<>>
        ELSE Trim(SubSeq(b, Min(F1) + 1, Min(F2) - 1))

\* line 323: building Pattern 2 throws when a requested name is no regex
pattern2Throws(fd) == \E m \in Range(fd.languages) : BadRegex(m)

\* the loop body throws for language l (lines 313-335)
throwsFor(b, fd, l) == exactMatch(b, fd, l) = <<>> /\ pattern2Throws(fd)

\* lines 310-335
extracted(b, fd, l) ==
    LET m1 == exactMatch(b, fd, l)
        m2 == langMatch(b, fd, l)
    IN  IF m1 # <<>> THEN Trim(m1)
        ELSE IF m2 # <<>> THEN Trim(m2)
        ELSE codeBlockMatch(b)

KnownTemplates ==
    {"javascript", "python", "java", "cpp", "csharp", "go", "rust", "typescript"}

\* lines 347-393: the skeleton of a known language, else the generic one
fallbackTemplates(l) ==
    IF l \in KnownTemplates THEN Str("skeleton of removeDuplicates in " \o l)
    ELSE Str("// Function template for " \o l \o "\n// Your code here")

\* lines 344-394
implementationOf(b, fd, l) ==
    LET implementation == extracted(b, fd, l)
    IN  IF fd.type = "complete_code" /\ implementation = <<>>
        THEN fallbackTemplates(l)
        ELSE implementation

\* lines 396-401
withLanguage(q, l, impl) ==
    [q EXCEPT !.id = q.id \o <<l>>, !.language = Str(l), !.implementation = impl]

\* lines 409-421
catchRecord(i, l) ==
    Question(<<"question", "fallback", ToString(i), l>>,
             Str("Generated Question " \o ToString(i + 1)),
             Str("Error parsing question. Please regenerate."),
             <<>>, <<>>, <<>>, <<>>, <<>>, Str(l), <<>>, <<>>)

\* lines 246-423: what block i adds to allQuestions
blockRecords(b, i, fd, ts) ==
    LET ls == fd.languages
        T == {j \in 1..Len(ls) : throwsFor(b, fd, ls[j])}
        done == IF T = {} THEN Len(ls) ELSE Min(T) - 1
        bq == baseQuestion(b, i, ts)
    IN  [j \in 1..done |-> withLanguage(bq, ls[j], implementationOf(b, fd, ls[j]))]
        \o (IF T = {} THEN <<>> ELSE [j \in 1..Len(ls) |-> catchRecord(i, ls[j])])

BlockLimit == 5

\* lines 243-424: the loop over the first five blocks
RECURSIVE parsedFrom(_, _, _, _)
parsedFrom(blocks, i, fd, tick) ==
    IF ~(i < Len(blocks) /\ i < BlockLimit) THEN <<>>
    ELSE blockRecords(blocks[i + 1], i, fd, DateNow(i, tick))
         \o parsedFrom(blocks, i + 1, fd, tick)

\* lines 429-445
paddingRecord(len, fd) ==
    LET questionIndex == (len \div Len(fd.languages)) + 1
        language == fd.languages[(len % Len(fd.languages)) + 1]
    IN  Question(<<"question", "fallback", ToString(questionIndex), language>>,
                 Str("Question " \o ToString(questionIndex)),
                 Str("Question generation incomplete. Please try again."),
                 <<>>, <<>>, <<>>, <<>>, <<>>, Str(language), <<>>, <<>>)

expectedCount(fd) == BlockLimit * Len(fd.languages)

\* lines 428-446
RECURSIVE padded(_, _)
padded(qs, fd) ==
    IF Len(qs) < expectedCount(fd) THEN padded(Append(qs, paddingRecord(Len(qs), fd)), fd)
    ELSE qs

\* a return without the slice (the variant C1 is checked against)
keepAll(qs, n) == qs

\* line 448
sliced(qs, n) == SubSeq(qs, 1, IF Len(qs) < n THEN Len(qs) ELSE n)

parseQuestionsWithImplementations(t, fd, tick) ==
    sliced(padded(parsedFrom(questionBlocks(t), 0, fd, tick), fd), expectedCount(fd))

(***************************************************************************)
(* parseBaseQuestions (lines 540-635) and the expansion per language of    *)
(* POST (lines 46-55).  Nothing in the try block of parseBaseQuestions     *)
(* can throw, so its catch clause (lines 605-617) is never entered.        *)
(***************************************************************************)
\* lines 548-555 and 592-602
question(b, i, ts) ==
    Question(
        baseId(ts, i),
        OrElse(Trim(Match(b, "Title:", {NL}, OnlyTok(NL))),
               Str("Question " \o ToString(i + 1))),
        OrElse(Trim(Match(b, "Problem Statement:", {}, OnlyTok("Input Format:"))),
               Str("Problem statement not found")),
        OrElse(Trim(Match(b, "Input Format:", {}, OnlyTok("Output Format:"))),
               Str("Input format not specified")),
        OrElse(Trim(Match(b, "Output Format:", {}, OnlyTok("Constraints:"))),
               Str("Output format not specified")),
        OrElse(Trim(Match(b, "Constraints:", {}, OnlyTok("Sample Input:"))),
               Str("Constraints not specified")),
        OrElse(Trim(Match(b, "Sample Input:", {}, OnlyTok("Sample Output:"))),
               Str("Sample input not provided")),
        OrElse(Trim(Match(b, "Sample Output:", {}, OnlyTok("Hint:"))),
               Str("Sample output not provided")),
        Undefined,
        Undefined,
        cleanHint(OrElse(Trim(Match(b, "Hint:", {}, LA({QWORD}, TRUE, TRUE, FALSE))),
                         <<>>)))

\* lines 544-618
RECURSIVE baseParsedFrom(_, _, _)
baseParsedFrom(blocks, i, tick) ==
    IF ~(i < Len(blocks) /\ i < BlockLimit) THEN <<>>
    ELSE <<question(blocks[i + 1], i, DateNow(i, tick))>>
         \o baseParsedFrom(blocks, i + 1, tick)

\* lines 622-631
basePaddingRecord(len) ==
    Question(<<"question", "fallback", ToString(len)>>,
             Str("Question " \o ToString(len + 1)),
             Str("Question generation incomplete. Please try again."),
             <<>>, <<>>, <<>>, <<>>, <<>>, Undefined, Undefined, Undefined)

\* a parser without the padding loop (the variant C3 is checked against)
notPadded(qs) == qs

\* lines 621-632
RECURSIVE basePadded(_)
basePadded(qs) ==
    IF Len(qs) < BlockLimit THEN basePadded(Append(qs, basePaddingRecord(Len(qs))))
    ELSE qs

parseBaseQuestions(t, tick) ==
    sliced(basePadded(baseParsedFrom(questionBlocks(t), 0, tick)), BlockLimit)

\* a label that leaves the identifier alone (the variant C2 is checked against)
labelledOnly(q, l) == [q EXCEPT !.language = Str(l)]

\* lines 49-53
labelled(q, l) == [q EXCEPT !.id = q.id \o <<l>>, !.language = Str(l)]

\* lines 46-55
questionsWithLanguages(baseQuestions, ls) ==
    [k \in 1..(Len(baseQuestions) * Len(ls)) |->
        labelled(baseQuestions[((k - 1) \div Len(ls)) + 1], ls[((k - 1) % Len(ls)) + 1])]

\* lines 36-67: the questions of the response
generated(t, fd, tick) ==
    IF fd.type = "write_code"
    THEN questionsWithLanguages(parseBaseQuestions(t, tick), fd.languages)
    ELSE parseQuestionsWithImplementations(t, fd, tick)

(***************************************************************************)
(* Completions the text-generation backend may return.                     *)
(***************************************************************************)
\* the sections of a block as the prompt asks for it (lines 139-156)
Sections ==
    << << "Title:", SP, "t", NL >>,
       << "Problem Statement:", SP, "p", SP, "q", NL >>,
       << "Input Format:", "i", NL >>,
       << "Output Format:", "o", NL >>,
       << "Constraints:", "k", NL >>,
       << "Sample Input:", "1", NL >>,
       << "Sample Output:", "2", NL >>,
       << "Hint:", SP, "h", NL, NL >> >>

\* the sections in their order, section k left out (none when k = 0)
RECURSIVE SectionsFrom(_, _)
SectionsFrom(n, k) ==
    IF n > Len(Sections) THEN <<>>
    ELSE (IF n = k THEN <<>> ELSE Sections[n]) \o SectionsFrom(n + 1, k)

Without(k) == SectionsFrom(1, k)

TemplatesHeader == << "FUNCTION TEMPLATES:", NL >>
PythonSection == << "PYTHON_TEMPLATE:", NL, "u", "v", SP, "w" >>
JavaSection == << "JAVA_TEMPLATE:", NL, "m", "n" >>
\* a section for python with the word QUESTION in it
WordySection == << "PYTHON_TEMPLATE:", NL, "u", SP, QWORD, SP, "w" >>

\* a complete block, with a section for python and one for java
GoodBlock ==
    Without(0) \o TemplatesHeader \o PythonSection \o <<NL, NL>> \o JavaSection

\* a complete block that ends with the section for python
PythonBlock == Without(0) \o TemplatesHeader \o PythonSection

\* a block with none of the labels
BareBlock == << "x", SP, "y" >>

BlockShapes == {GoodBlock, BareBlock}

Preambles == {<<>>, <<"x", NL>>}

RECURSIVE Joined(_)
Joined(blocks) ==
    IF blocks = <<>> THEN <<>>
    ELSE <<DELIM, SP>> \o Head(blocks) \o <<NL, NL>> \o Joined(Tail(blocks))

Texts ==
    {pre \o Joined(bs) : pre \in Preambles,
                         bs \in UNION {[1..k -> BlockShapes] : k \in 0..MaxBlocks}}

\* what may follow the labelled sections of a block
Tails ==
    { <<>>,
      TemplatesHeader \o PythonSection,
      TemplatesHeader \o PythonSection \o <<NL, NL>> \o JavaSection,
      TemplatesHeader \o JavaSection \o <<NL, NL>> \o PythonSection,
      TemplatesHeader \o WordySection \o <<NL, NL>> \o JavaSection }

\* completions of a single block: one section may be missing
BlockTexts ==
    {<<DELIM, SP>> \o Without(k) \o tail : k \in 0..Len(Sections), tail \in Tails}

(***************************************************************************)
(* The generate handler, POST of src/app/api/generate/route.ts.            *)
(***************************************************************************)
NoFormData == [type |-> "none", hasLanguages |-> FALSE, languages |-> <<>>]
NoText == <<"<no text>">>          \* no completion has been returned
NoResponse == [status |-> 0]
NoPrompt == <<>>

\* the field labels of a block, lines 139-147 and 509-517
FormatLines ==
    << "FORMAT for each question:", "QUESTION [NUMBER]:", "Title:",
       "Problem Statement:", "Input Format:", "Output Format:", "Constraints:",
       "Sample Input:", "Sample Output:", "Hint:" >>

\* lines 121-236: the lines of the prompt that name a section, from the
\* format on; languageList = formData.languages.join(', ') is line 121
generateCombinedPrompt(fd) ==
    LET isFromScratch == fd.type = "write_code"
    IN  FormatLines
        \o << IF isFromScratch THEN "COMPLETE IMPLEMENTATIONS:" ELSE "FUNCTION TEMPLATES:" >>
        \o [k \in 1..Len(fd.languages) |->
               IF isFromScratch
               THEN toUpperCase(fd.languages[k]) \o "_IMPLEMENTATION:"
               ELSE toUpperCase(fd.languages[k]) \o "_TEMPLATE:"]
        \o << "SAMPLE TEMPLATE FORMATS (use exact style):",
              "JAVASCRIPT_TEMPLATE:", "PYTHON_TEMPLATE:", "JAVA_TEMPLATE:" >>
        \o << IF isFromScratch THEN "IMPLEMENTATION REQUIREMENTS:"
              ELSE "TEMPLATE REQUIREMENTS:" >>
        \o << "QUALITY REQUIREMENTS:" >>

\* lines 451-538
generateBaseOnlyPrompt(fd) ==
    FormatLines \o << "IMPORTANT:", "QUALITY REQUIREMENTS:" >>

\* a handler without the branch of line 36 (the variant C19 is checked
\* against)
promptCombined(fd) == generateCombinedPrompt(fd)

\* lines 36-38 and 58-60: the prompt of the request
promptOf(fd) ==
    IF fd.type = "write_code" THEN generateBaseOnlyPrompt(fd)
    ELSE generateCombinedPrompt(fd)
GenerateError == [status |-> 500, error |-> "Failed to generate questions"]

\* lines 32-39 or 32-61: request.json() resolves and the handler calls
\* model.generateContent with the prompt; generateCombinedPrompt (line 121)
\* throws on a body without a language list, which ends in lines 68-74
ReadRequest(fd) ==
    /\ pc = "idle"
    /\ formData' = fd
    /\ IF fd.type # "write_code" /\ ~fd.hasLanguages
       THEN /\ pc' = "done"
            /\ response' = GenerateError
            /\ UNCHANGED <<genCalls, prompt>>
       ELSE /\ pc' = "calling"
            /\ genCalls' = genCalls + 1
            /\ prompt' = promptOf(fd)
            /\ UNCHANGED response
    /\ UNCHANGED <<text, exportVars, uiVars, hintVars, conVars>>

\* line 32 rejects, lines 68-74
ReadFails ==
    /\ pc = "idle"
    /\ pc' = "done"
    /\ response' = GenerateError
    /\ UNCHANGED <<formData, text, genCalls, prompt, exportVars, uiVars, hintVars, conVars>>

\* a parser whose try block has no catch clause: a failing block ends the
\* request with the handler's own catch (the variant C9 is checked against)
BackendRaises(t, tick) ==
    /\ pc = "calling"
    /\ pc' = "done"
    /\ text' = t
    /\ response' =
          IF \/ ~formData.hasLanguages
             \/ /\ formData.type # "write_code"
                /\ \E i \in 1..Len(questionBlocks(t)), l \in Range(formData.languages) :
                       i <= BlockLimit /\ throwsFor(questionBlocks(t)[i], formData, l)
          THEN GenerateError
          ELSE [status |-> 200, questions |-> generated(t, formData, tick)]
    /\ UNCHANGED <<formData, genCalls, prompt, exportVars, uiVars, hintVars, conVars>>

\* lines 39-57 or 61-66: the backend answers with a text, which is parsed;
\* the loop of line 48 throws on a body without a language list, which ends
\* in lines 68-74
BackendReturns(t, tick) ==
    /\ pc = "calling"
    /\ pc' = "done"
    /\ text' = t
    /\ response' =
          IF ~formData.hasLanguages THEN GenerateError
          ELSE [status |-> 200, questions |-> generated(t, formData, tick)]
    /\ UNCHANGED <<formData, genCalls, prompt, exportVars, uiVars, hintVars, conVars>>

\* a handler that calls the backend again when the call is rejected (the
\* variant C17 is checked against)
BackendRetried ==
    /\ pc = "calling"
    /\ genCalls' = genCalls + 1
    /\ UNCHANGED <<pc, formData, text, response, prompt, exportVars, uiVars, hintVars, conVars>>

\* lines 39-41 or 61-63 reject, lines 68-74
BackendFails ==
    /\ pc = "calling"
    /\ pc' = "done"
    /\ response' = GenerateError
    /\ UNCHANGED <<formData, text, genCalls, prompt, exportVars, uiVars, hintVars, conVars>>

\* the handler is entered again for the next request
NextRequest ==
    /\ pc = "done"
    /\ pc' = "idle"
    /\ formData' = NoFormData
    /\ text' = NoText
    /\ response' = NoResponse
    /\ genCalls' = 0
    /\ prompt' = NoPrompt
    /\ UNCHANGED <<exportVars, uiVars, hintVars, conVars>>

(***************************************************************************)
(* The export handler, POST of src/unnamed/part_002 (the six-column        *)
(* version of src/app/api/sheets/route.ts; the two files agree on          *)
(* everything but the columns of a row).                                   *)
(***************************************************************************)
\* String.prototype.toUpperCase on a field
upper(f) == [k \in 1..Len(f) |-> toUpperCase(f[k])]

\* a value inside a template literal
Shown(f) == IF f = Undefined THEN <<"undefined">> ELSE f

\* a value in a condition or on the left of ||
Truthy(f) == f # Undefined /\ f # <<>>

\* a row whose hint column prefers the hint of the record (the variant C13
\* is checked against)
rowOfRecordHint(q, ip) ==
    << Str(ip.positionName),
       IF Truthy(q.language) THEN upper(q.language) ELSE Str("N/A"),
       Shown(q.problemStatement) \o <<NL, NL, "Example:", NL, "Input: ">>
           \o Shown(q.sampleInput) \o <<NL, "Output: ">> \o Shown(q.sampleOutput)
           \o <<NL, NL, "Constraints:", NL>> \o Shown(q.constraints)
           \o (IF Truthy(q.implementation) THEN <<NL, NL>> \o q.implementation ELSE <<>>),
       IF Truthy(q.hint) THEN q.hint
       ELSE IF ip.hint # "" THEN Str(ip.hint) ELSE <<>>,
       Str(ip.type),
       Str(ip.difficultyLevel) >>

\* lines 96-104: the row of one question
rowOf(q, ip) ==
    << Str(ip.positionName),
       IF Truthy(q.language) THEN upper(q.language) ELSE Str("N/A"),
       Shown(q.problemStatement) \o <<NL, NL, "Example:", NL, "Input: ">>
           \o Shown(q.sampleInput) \o <<NL, "Output: ">> \o Shown(q.sampleOutput)
           \o <<NL, NL, "Constraints:", NL>> \o Shown(q.constraints)
           \o (IF Truthy(q.implementation) THEN <<NL, NL>> \o q.implementation ELSE <<>>),
       IF ip.hint # "" THEN Str(ip.hint)
       ELSE IF Truthy(q.hint) THEN q.hint ELSE <<>>,
       Str(ip.type),
       Str(ip.difficultyLevel) >>

\* lines 91-105
valuesOf(qs, ip) == [k \in 1..Len(qs) |-> rowOf(qs[k], ip)]

\* lines 108-115
headerRow ==
    << Str("Position Name"), Str("Language"), Str("Problem"),
       Str("Hint"), Str("Type"), Str("Difficulty level") >>

\* questions an export request may carry
SampleQuestions ==
    { Question(<<"question", "0", "0", "python">>, Str("t"), Str("p"),
               Str("i"), Str("o"), Str("c"), Str("1"), Str("2"),
               Str("python"), Str("def f"), Str("h")),
      Question(<<"question", "fallback", "1">>, Str("Question 2"),
               Str("Question generation incomplete. Please try again."),
               <<>>, <<>>, <<>>, <<>>, <<>>, Undefined, Undefined, Undefined) }

SampleParameters ==
    { [positionName |-> "Java Developer", hint |-> "", type |-> "write_code",
       difficultyLevel |-> "easy", languages |-> <<"python">>],
      [positionName |-> "Java Developer", hint |-> "focus", type |-> "complete_code",
       difficultyLevel |-> "hard", languages |-> <<"python">>] }

NoParameters == [positionName |-> "", hint |-> "", type |-> "",
                 difficultyLevel |-> "", languages |-> <<>>]

\* the bodies request.json() may give: questions and inputParameters may
\* each be missing
ExportBodies ==
    [hasQuestions : {TRUE}, hasParameters : {TRUE},
     questions : UNION {[1..k -> SampleQuestions] : k \in 0..MaxRows},
     inputParameters : SampleParameters]
    \cup [hasQuestions : {FALSE}, hasParameters : {TRUE},
          questions : {<<>>}, inputParameters : SampleParameters]
    \cup [hasQuestions : {TRUE}, hasParameters : {FALSE},
          questions : UNION {[1..k -> SampleQuestions] : k \in 0..MaxRows},
          inputParameters : {NoParameters}]

NoBody == [hasQuestions |-> FALSE, hasParameters |-> FALSE,
           questions |-> <<>>, inputParameters |-> NoParameters]

Envs == [GOOGLE_SHEETS_CLIENT_EMAIL : BOOLEAN, GOOGLE_SHEETS_PRIVATE_KEY : BOOLEAN]

\* lines 36-39
BadRequest == [status |-> 400, error |-> "No questions provided"]

\* a message without the count (the variant C10 is checked against)
LoggedNoCount(qs) ==
    [status |-> 200, success |-> TRUE,
     message |-> <<"Questions would be sent to Google Sheets">>,
     note |-> "Google Sheets credentials not configured. Questions logged to console."]

\* lines 52-57
LoggedOnly(qs) ==
    [status |-> 200, success |-> TRUE,
     message |-> <<ToString(Len(qs)), " questions would be sent to Google Sheets">>,
     note |-> "Google Sheets credentials not configured. Questions logged to console."]

\* lines 155-166
Exported(qs, updatedRows) ==
    [status |-> 200, success |-> TRUE,
     message |-> <<ToString(Len(qs)), " question entries successfully sent to Google Sheets">>,
     updatedRows |-> updatedRows]

\* a fallback response that drops the caught error (the variant C11 is
\* checked against)
SheetsErrorBare(qs, detail) ==
    [status |-> 500, success |-> FALSE, error |-> "Failed to connect to Google Sheets",
     fallback |-> <<ToString(Len(qs)), " questions logged to console">>]

\* lines 172-178: detail is sheetsError.message
SheetsError(qs, detail) ==
    [status |-> 500, success |-> FALSE, error |-> "Failed to connect to Google Sheets",
     details |-> detail,
     fallback |-> <<ToString(Len(qs)), " questions logged to console">>]

\* error messages with which the spreadsheet backend may reject a call
ProviderErrors == {"The caller does not have permission", "Quota exceeded"}

\* the message of the TypeError of reading a property of undefined
TypeErrorMessage == "Cannot read properties of undefined"

\* lines 183-186
ProcessError == [status |-> 500, error |-> "Failed to process request"]

\* lines 33-125: request.json() resolves and the handler runs up to its
\* first call of the spreadsheet backend
XReadRequest(body) ==
    /\ xpc = "idle"
    /\ Len(sheet) + Len(body.questions) <= MaxSheetRows
    /\ xreq' = body
    /\ IF ~body.hasQuestions \/ Len(body.questions) = 0
       THEN /\ xpc' = "done"
            /\ xresponse' = BadRequest
            /\ UNCHANGED sheetCalls
       ELSE IF ~env.GOOGLE_SHEETS_CLIENT_EMAIL \/ ~env.GOOGLE_SHEETS_PRIVATE_KEY
       THEN \* line 48 reads inputParameters.type
            /\ xpc' = "done"
            /\ xresponse' = IF body.hasParameters THEN LoggedOnly(body.questions)
                            ELSE ProcessError
            /\ UNCHANGED sheetCalls
       ELSE IF ~body.hasParameters
       THEN \* line 97 reads inputParameters.positionName, inside the inner try
            /\ xpc' = "done"
            /\ xresponse' = SheetsError(body.questions, TypeErrorMessage)
            /\ sheetCalls' = <<"auth">>
       ELSE /\ xpc' = "header"
            /\ sheetCalls' = <<"auth", "update">>
            /\ UNCHANGED xresponse
    /\ UNCHANGED <<sheetErrors, sheet, genVars, uiVars, hintVars, conVars>>

\* line 33 rejects, lines 181-186
XReadFails ==
    /\ xpc = "idle"
    /\ xpc' = "done"
    /\ xresponse' = ProcessError
    /\ UNCHANGED <<xreq, sheetCalls, sheetErrors, sheet, genVars, uiVars, hintVars, conVars>>

\* lines 119-126 resolve, then line 133 calls append
XHeaderOk ==
    /\ xpc = "header"
    /\ xpc' = "append"
    /\ sheet' = IF sheet = <<>> THEN <<headerRow>> ELSE [sheet EXCEPT ![1] = headerRow]
    /\ sheetCalls' = Append(sheetCalls, "append")
    /\ UNCHANGED <<xreq, xresponse, sheetErrors, genVars, uiVars, hintVars, conVars>>

\* a header update without its own try: the rejection ends the request in
\* lines 168-178 (the variant C12 is checked against)
XHeaderAborts(m) ==
    /\ xpc = "header"
    /\ xpc' = "done"
    /\ sheetErrors' = Append(sheetErrors, [call |-> "update", message |-> m])
    /\ xresponse' = SheetsError(xreq.questions, m)
    /\ UNCHANGED <<xreq, sheetCalls, sheet, genVars, uiVars, hintVars, conVars>>

\* lines 119-126 reject, lines 127-130, then line 133 calls append
XHeaderFails(m) ==
    /\ xpc = "header"
    /\ xpc' = "append"
    /\ sheetErrors' = Append(sheetErrors, [call |-> "update", message |-> m])
    /\ sheetCalls' = Append(sheetCalls, "append")
    /\ UNCHANGED <<xreq, xresponse, sheet, genVars, uiVars, hintVars, conVars>>

\* lines 133-166: the append resolves
XAppendOk ==
    /\ xpc = "append"
    /\ xpc' = "done"
    /\ sheet' = sheet \o valuesOf(xreq.questions, xreq.inputParameters)
    /\ xresponse' = Exported(xreq.questions, Len(xreq.questions))
    /\ UNCHANGED <<xreq, sheetCalls, sheetErrors, genVars, uiVars, hintVars, conVars>>

\* line 133 rejects, lines 168-178
XAppendFails(m) ==
    /\ xpc = "append"
    /\ xpc' = "done"
    /\ sheetErrors' = Append(sheetErrors, [call |-> "append", message |-> m])
    /\ xresponse' = SheetsError(xreq.questions, m)
    /\ UNCHANGED <<xreq, sheetCalls, sheet, genVars, uiVars, hintVars, conVars>>

\* the handler is entered again for the next request
XNextRequest ==
    /\ xpc = "done"
    /\ xpc' = "idle"
    /\ xreq' = NoBody
    /\ sheetCalls' = <<>>
    /\ sheetErrors' = <<>>
    /\ xresponse' = NoResponse
    /\ UNCHANGED <<sheet, genVars, uiVars, hintVars, conVars>>

(***************************************************************************)
(* The page, src/unnamed/part_000 lines 1-630: its state, the handlers of  *)
(* its controls and the two fetches.  A fetch is two steps of the page:    *)
(* the click, which puts the body in flight, and the continuation after    *)
(* the await, which takes the response of the handler.                     *)
(***************************************************************************)
MaxBatches == 2
MaxSelected == 1

\* lines 85-94, the ids the page offers (the first of the eight)
availableLanguages == <<"javascript", "python">>

\* lines 32-40 (problem and topic only reach the prompt)
InitialFormData ==
    [positionName |-> "Software Engineer", languages |-> <<"javascript">>,
     hint |-> "", type |-> "complete_code", difficultyLevel |-> "medium"]

\* the values typed or chosen in the inputs named by InputNames
InputNames == {"hint", "difficultyLevel"}
\* lines 50-75, two of the positions offered
Positions == {"Software Engineer", "Java Developer"}
InputValues(name) ==
    CASE name = "hint" -> {"", "focus"}
      [] name = "difficultyLevel" -> {"medium", "hard"}

\* JSON.stringify(formData) as request.json() of the generate handler reads it
bodyOf(fd) ==
    [type |-> fd.type, hasLanguages |-> TRUE, languages |-> fd.languages,
     positionName |-> fd.positionName, hint |-> fd.hint,
     difficultyLevel |-> fd.difficultyLevel]

NoBatch == [no |-> 0, request |-> NoFormData]

InitPage ==
    /\ uiFormData = InitialFormData
    /\ questions = <<>>
    /\ selectedQuestions = {}
    /\ isGenerating = FALSE
    /\ isSendingToSheet = FALSE
    /\ generateBody = NoFormData
    /\ sheetsBody = NoBody
    /\ batch = NoBatch
    /\ exportedIds = <<>>
    /\ outstanding = [generate |-> 0, sheets |-> 0]

\* lines 100-106
handleInputChange(name, value) ==
    /\ uiFormData' = [uiFormData EXCEPT ![name] = value]
    /\ UNCHANGED <<questions, selectedQuestions, isGenerating, isSendingToSheet,
                   generateBody, sheetsBody, batch, exportedIds, outstanding, genVars, exportVars,
                   hintVars, conVars>>

\* lines 108-115
handleLanguageChange(languageId) ==
    /\ uiFormData' =
          [uiFormData EXCEPT !.languages =
              IF languageId \in Range(uiFormData.languages)
              THEN SelectSeq(uiFormData.languages, LAMBDA lang : lang # languageId)
              ELSE Append(uiFormData.languages, languageId)]
    /\ UNCHANGED <<questions, selectedQuestions, isGenerating, isSendingToSheet,
                   generateBody, sheetsBody, batch, exportedIds, outstanding, genVars, exportVars,
                   hintVars, conVars>>

\* lines 117-123
handleSelectAllLanguages ==
    /\ uiFormData' =
          [uiFormData EXCEPT !.languages =
              IF Len(uiFormData.languages) = Len(availableLanguages)
              THEN <<>> ELSE availableLanguages]
    /\ UNCHANGED <<questions, selectedQuestions, isGenerating, isSendingToSheet,
                   generateBody, sheetsBody, batch, exportedIds, outstanding, genVars, exportVars,
                   hintVars, conVars>>

\* lines 125-132
handlePositionSelect(position) ==
    /\ uiFormData' = [uiFormData EXCEPT !.positionName = position]
    /\ UNCHANGED <<questions, selectedQuestions, isGenerating, isSendingToSheet,
                   generateBody, sheetsBody, batch, exportedIds, outstanding, genVars, exportVars,
                   hintVars, conVars>>

\* lines 148-163, up to the await of fetch; the button is disabled while
\* isGenerating (line 472)
generateQuestionsEnabled ==
    /\ outstanding.generate < 2
    /\ batch.no < MaxBatches
    /\ IF Len(uiFormData.languages) = 0
       THEN UNCHANGED <<isGenerating, generateBody, outstanding>>
       ELSE /\ isGenerating' = TRUE
            /\ generateBody' = bodyOf(uiFormData)
            /\ outstanding' = [outstanding EXCEPT !.generate = @ + 1]
    /\ UNCHANGED <<uiFormData, questions, selectedQuestions, isSendingToSheet,
                   sheetsBody, batch, exportedIds, genVars, exportVars, hintVars, conVars>>

generateQuestionsUnchecked ==
    /\ ~isGenerating
    /\ batch.no < MaxBatches
    /\ isGenerating' = TRUE
    /\ generateBody' = bodyOf(uiFormData)
    /\ outstanding' = [outstanding EXCEPT !.generate = @ + 1]
    /\ UNCHANGED <<uiFormData, questions, selectedQuestions, isSendingToSheet,
                   sheetsBody, batch, exportedIds, genVars, exportVars, hintVars, conVars>>

generateQuestions ==
    /\ ~isGenerating
    /\ batch.no < MaxBatches
    /\ IF Len(uiFormData.languages) = 0
       THEN UNCHANGED <<isGenerating, generateBody, outstanding>>    \* the toast, line 150
       ELSE /\ isGenerating' = TRUE
            /\ generateBody' = bodyOf(uiFormData)
            /\ outstanding' = [outstanding EXCEPT !.generate = @ + 1]
    /\ UNCHANGED <<uiFormData, questions, selectedQuestions, isSendingToSheet,
                   sheetsBody, batch, exportedIds, genVars, exportVars, hintVars, conVars>>

\* a handler that keeps the selection when it replaces the questions
generateQuestionsDoneKept ==
    /\ isGenerating
    /\ pc = "done"
    /\ IF response.status = 200
       THEN /\ questions' = response.questions
            /\ batch' = [no |-> batch.no + 1, request |-> formData]
            /\ UNCHANGED selectedQuestions
       ELSE UNCHANGED <<questions, selectedQuestions, batch>>
    /\ isGenerating' = FALSE
    /\ generateBody' = NoFormData
    /\ outstanding' = [outstanding EXCEPT !.generate = @ - 1]
    /\ pc' = "idle"
    /\ formData' = NoFormData
    /\ text' = NoText
    /\ response' = NoResponse
    /\ genCalls' = 0
    /\ prompt' = NoPrompt
    /\ UNCHANGED <<uiFormData, isSendingToSheet, sheetsBody, exportedIds, exportVars,
                   hintVars, conVars>>

\* lines 163-177, from the await on: the response of the handler arrives
generateQuestionsDone ==
    /\ isGenerating
    /\ pc = "done"
    /\ IF response.status = 200
       THEN /\ questions' = response.questions
            /\ selectedQuestions' = {}
            /\ batch' = [no |-> batch.no + 1, request |-> formData]
       ELSE UNCHANGED <<questions, selectedQuestions, batch>>
    /\ isGenerating' = FALSE
    /\ generateBody' = NoFormData
    /\ outstanding' = [outstanding EXCEPT !.generate = @ - 1]
    /\ pc' = "idle"
    /\ formData' = NoFormData
    /\ text' = NoText
    /\ response' = NoResponse
    /\ genCalls' = 0
    /\ prompt' = NoPrompt
    /\ UNCHANGED <<uiFormData, isSendingToSheet, sheetsBody, exportedIds, exportVars,
                   hintVars, conVars>>

\* lines 180-190
toggleQuestionSelection(questionId) ==
    /\ questionId \in selectedQuestions \/ Cardinality(selectedQuestions) < MaxSelected
    /\ selectedQuestions' =
          IF questionId \in selectedQuestions
          THEN selectedQuestions \ {questionId}
          ELSE selectedQuestions \cup {questionId}
    /\ UNCHANGED <<uiFormData, questions, isGenerating, isSendingToSheet,
                   generateBody, sheetsBody, batch, exportedIds, outstanding, genVars, exportVars,
                   hintVars, conVars>>

\* lines 200-210: the body of the export request (batchNo is not sent: it
\* remembers which batch the questions are of)
sheetsBodyOf(qs, fd) ==
    [hasQuestions |-> TRUE, hasParameters |-> TRUE,
     questions |-> qs, inputParameters |-> fd, batchNo |-> batch.no]

\* lines 192-210, up to the await of fetch; the button is disabled while
\* isSendingToSheet or nothing is selected (line 497)
sendToSheet ==
    /\ ~isSendingToSheet
    /\ Cardinality(selectedQuestions) # 0
    /\ isSendingToSheet' = TRUE
    /\ sheetsBody' = sheetsBodyOf(SelectSeq(questions, LAMBDA q : q.id \in selectedQuestions),
                                  uiFormData)
    /\ outstanding' = [outstanding EXCEPT !.sheets = @ + 1]
    /\ UNCHANGED <<uiFormData, questions, selectedQuestions, isGenerating,
                   generateBody, batch, exportedIds, genVars, exportVars, hintVars, conVars>>

\* a handler that clears the selection whatever the response
sendToSheetDoneCleared ==
    /\ isSendingToSheet
    /\ xpc = "done"
    /\ selectedQuestions' = {}
    /\ exportedIds' =
          IF "updatedRows" \in DOMAIN xresponse
          THEN Append(exportedIds,
                      { <<sheetsBody.batchNo, sheetsBody.questions[k].id>> :
                            k \in 1..Len(sheetsBody.questions) })
          ELSE exportedIds
    /\ isSendingToSheet' = FALSE
    /\ sheetsBody' = NoBody
    /\ outstanding' = [outstanding EXCEPT !.sheets = @ - 1]
    /\ xpc' = "idle"
    /\ xreq' = NoBody
    /\ sheetCalls' = <<>>
    /\ sheetErrors' = <<>>
    /\ xresponse' = NoResponse
    /\ UNCHANGED <<uiFormData, questions, isGenerating, generateBody, batch,
                   env, sheet, genVars, hintVars, conVars>>

\* lines 212-224, from the await on: the response of the handler arrives;
\* line 217 clears the selection, the questions stay.  exportedIds gets
\* the records (batch, id) of an export whose append has succeeded
sendToSheetDone ==
    /\ isSendingToSheet
    /\ xpc = "done"
    /\ selectedQuestions' = IF xresponse.status = 200 THEN {} ELSE selectedQuestions
    /\ exportedIds' =
          IF "updatedRows" \in DOMAIN xresponse
          THEN Append(exportedIds,
                      { <<sheetsBody.batchNo, sheetsBody.questions[k].id>> :
                            k \in 1..Len(sheetsBody.questions) })
          ELSE exportedIds
    /\ isSendingToSheet' = FALSE
    /\ sheetsBody' = NoBody
    /\ outstanding' = [outstanding EXCEPT !.sheets = @ - 1]
    /\ xpc' = "idle"
    /\ xreq' = NoBody
    /\ sheetCalls' = <<>>
    /\ sheetErrors' = <<>>
    /\ xresponse' = NoResponse
    /\ UNCHANGED <<uiFormData, questions, isGenerating, generateBody, batch,
                   env, sheet, genVars, hintVars, conVars>>

(***************************************************************************)
(* cleanHint applied to what cleanHint returned (route.ts lines 257-289    *)
(* and 558-590).                                                           *)
(***************************************************************************)
MaxHintLen == 5
MaxApplications == 2

\* the tokens of the hint texts
HintTokens == {"Use two pointers", "/", "(", ")", "*", SP, "."}
\* hint texts around the two ends of the length window: a sentence of ten
\* characters and a word of ninety-nine
MaxWindowLen == 4
LongWord == "aaaaaaaaaaaaaaaaaaaaaaaaaaaaaaaaaaaaaaaaaaaaaaaaaaaaaaaaaaaaaaaaaaaaaaaaaaaaaaaaaaaaaaaaaaaaaaaaaaa"
WindowTokens == {"Use a heap", LongWord, ".", SP, "("}
Hints ==
    UNION {[1..n -> HintTokens] : n \in 0..MaxHintLen}
    \cup UNION {[1..n -> WindowTokens] : n \in 1..MaxWindowLen}

NoHint ==
    /\ hintIn = <<>>
    /\ hintResult = <<>>

\* cleanHint is called on the text, then on what the last call returned
ApplyCleanHint ==
    /\ Len(hintResult) < MaxApplications
    /\ hintResult' =
          Append(hintResult,
                 cleanHint(IF hintResult = <<>> THEN hintIn
                           ELSE hintResult[Len(hintResult)]))
    /\ UNCHANGED <<hintIn, genVars, exportVars, uiVars, conVars>>

(***************************************************************************)
(* Two requests handled at the same time.  A handler keeps its request in  *)
(* locals; the sheet is what two export handlers share.                    *)
(***************************************************************************)
Handlers == {1, 2}

\* sent is the body the client has sent, outcome what the backend did with
\* the call of the handler; the other fields are the locals of the handler
NoGen == [pc |-> "idle", sent |-> NoFormData, formData |-> NoFormData,
          outcome |-> "none", text |-> NoText, tick |-> 0, response |-> NoResponse]
NoExp == [pc |-> "idle", sent |-> NoBody, req |-> NoBody, outcome |-> "none",
          sheetCalls |-> <<>>, response |-> NoResponse]

NoHandlers ==
    /\ gens = [h \in Handlers |-> NoGen]
    /\ exps = [h \in Handlers |-> NoExp]

\* the requests sent while another is handled
ConFormDatas ==
    { fd \in FormDatas : fd.languages \in {<<>>, <<"python">>, <<"java", "python">>} }
ConTexts == { <<DELIM, SP>> \o GoodBlock, <<DELIM, SP>> \o PythonBlock }
ConBodies == { b \in ExportBodies : b.hasParameters }

\* route.ts lines 32-39 or 32-61 in handler h: formData is a const of POST
GenRead(h, fd) ==
    /\ gens[h].pc = "idle"
    /\ gens' = [gens EXCEPT ![h] =
                  [@ EXCEPT
                     !.sent = fd, !.formData = fd,
                     !.pc = IF fd.type # "write_code" /\ ~fd.hasLanguages
                            THEN "done" ELSE "calling",
                     !.response = IF fd.type # "write_code" /\ ~fd.hasLanguages
                                  THEN GenerateError ELSE NoResponse]]
    /\ UNCHANGED <<exps, genVars, exportVars, uiVars, hintVars>>

\* route.ts lines 39-57 or 61-66 in handler h
GenReturns(h, t, tick) ==
    /\ gens[h].pc = "calling"
    /\ gens' = [gens EXCEPT ![h] =
                  [@ EXCEPT
                     !.pc = "done", !.outcome = "text", !.text = t, !.tick = tick,
                     !.response =
                        IF ~gens[h].formData.hasLanguages THEN GenerateError
                        ELSE [status |-> 200,
                              questions |-> generated(t, gens[h].formData, tick)]]]
    /\ UNCHANGED <<exps, genVars, exportVars, uiVars, hintVars>>

\* route.ts lines 39-41 or 61-63 reject in handler h, lines 68-74
GenFails(h) ==
    /\ gens[h].pc = "calling"
    /\ gens' = [gens EXCEPT ![h] =
                  [@ EXCEPT !.pc = "done", !.outcome = "rejected",
                            !.response = GenerateError]]
    /\ UNCHANGED <<exps, genVars, exportVars, uiVars, hintVars>>

\* part_002 lines 33-125 in handler h: questions and inputParameters are
\* consts of POST
ExpRead(h, body) ==
    /\ exps[h].pc = "idle"
    /\ exps' = [exps EXCEPT ![h] =
          IF ~body.hasQuestions \/ Len(body.questions) = 0
          THEN [@ EXCEPT !.sent = body, !.req = body, !.pc = "done",
                         !.response = BadRequest]
          ELSE IF ~env.GOOGLE_SHEETS_CLIENT_EMAIL \/ ~env.GOOGLE_SHEETS_PRIVATE_KEY
          THEN [@ EXCEPT !.sent = body, !.req = body, !.pc = "done",
                         !.response = IF body.hasParameters
                                      THEN LoggedOnly(body.questions)
                                      ELSE ProcessError]
          ELSE IF ~body.hasParameters
          THEN [@ EXCEPT !.sent = body, !.req = body, !.pc = "done",
                         !.sheetCalls = <<"auth">>,
                         !.response = SheetsError(body.questions, TypeErrorMessage)]
          ELSE [@ EXCEPT !.sent = body, !.req = body, !.pc = "header",
                         !.sheetCalls = <<"auth", "update">>]]
    /\ UNCHANGED <<gens, genVars, exportVars, uiVars, hintVars>>

\* part_002 lines 119-126 resolve in handler h, then line 133 calls append
ExpHeaderOk(h) ==
    /\ exps[h].pc = "header"
    /\ exps' = [exps EXCEPT ![h] =
                  [@ EXCEPT !.pc = "append", !.sheetCalls = Append(@, "append")]]
    /\ sheet' = IF sheet = <<>> THEN <<headerRow>> ELSE [sheet EXCEPT ![1] = headerRow]
    /\ UNCHANGED <<gens, pc, formData, text, response, genCalls, prompt, env,
                   xpc, xreq, sheetCalls, sheetErrors, xresponse, uiVars, hintVars>>

\* part_002 lines 119-126 reject in handler h, lines 127-130
ExpHeaderFails(h, m) ==
    /\ exps[h].pc = "header"
    /\ exps' = [exps EXCEPT ![h] =
                  [@ EXCEPT !.pc = "append", !.sheetCalls = Append(@, "append")]]
    /\ UNCHANGED <<gens, genVars, exportVars, uiVars, hintVars>>

\* part_002 lines 133-166 in handler h: the append resolves
ExpAppendOk(h) ==
    /\ exps[h].pc = "append"
    /\ exps' = [exps EXCEPT ![h] =
                  [@ EXCEPT !.pc = "done", !.outcome = "appended",
                            !.response = Exported(exps[h].req.questions,
                                                  Len(exps[h].req.questions))]]
    /\ sheet' = sheet \o valuesOf(exps[h].req.questions, exps[h].req.inputParameters)
    /\ UNCHANGED <<gens, pc, formData, text, response, genCalls, prompt, env,
                   xpc, xreq, sheetCalls, sheetErrors, xresponse, uiVars, hintVars>>

\* part_002 line 133 rejects in handler h, lines 168-178
ExpAppendFails(h, m) ==
    /\ exps[h].pc = "append"
    /\ exps' = [exps EXCEPT ![h] =
                  [@ EXCEPT !.pc = "done", !.outcome = m,
                            !.response = SheetsError(exps[h].req.questions, m)]]
    /\ UNCHANGED <<gens, genVars, exportVars, uiVars, hintVars>>

InitGenerate ==
    /\ pc = "idle"
    /\ formData = NoFormData
    /\ text = NoText
    /\ response = NoResponse
    /\ genCalls = 0
    /\ prompt = NoPrompt

InitExport ==
    /\ xpc = "idle"
    /\ xreq = NoBody
    /\ sheetCalls = <<>>
    /\ sheetErrors = <<>>
    /\ sheet = <<>>
    /\ xresponse = NoResponse

\* the generate endpoint; the export endpoint waits, its credentials set
Init ==
    /\ InitGenerate
    /\ InitExport
    /\ InitPage
    /\ NoHint
    /\ NoHandlers
    /\ env = [GOOGLE_SHEETS_CLIENT_EMAIL |-> TRUE, GOOGLE_SHEETS_PRIVATE_KEY |-> TRUE]

Next ==
    \/ \E fd \in FormDatas : ReadRequest(fd)
    \/ ReadFails
    \/ \E t \in Texts, tick \in Ticks : BackendReturns(t, tick)
    \/ BackendFails
    \/ NextRequest

Spec == Init /\ [][Next]_vars

\* the generate endpoint on completions of a single block
NextBlock ==
    \/ \E fd \in FormDatas : ReadRequest(fd)
    \/ ReadFails
    \/ \E t \in BlockTexts, tick \in Ticks : BackendReturns(t, tick)
    \/ BackendFails
    \/ NextRequest

SpecBlock == Init /\ [][NextBlock]_vars

\* the export endpoint, under each configuration of the credentials
InitX ==
    /\ InitGenerate
    /\ InitExport
    /\ InitPage
    /\ NoHint
    /\ NoHandlers
    /\ env \in Envs

NextX ==
    \/ \E body \in ExportBodies : XReadRequest(body)
    \/ XReadFails
    \/ XHeaderOk
    \/ \E m \in ProviderErrors : XHeaderFails(m)
    \/ XAppendOk
    \/ \E m \in ProviderErrors : XAppendFails(m)
    \/ XNextRequest

SpecExport == InitX /\ [][NextX]_vars

\* the page in front of the two handlers: every request is one the page
\* sent, every response goes back to the page
UITexts == { Joined(<<GoodBlock, GoodBlock>>) }

InitUI ==
    /\ InitGenerate
    /\ InitExport
    /\ InitPage
    /\ NoHint
    /\ NoHandlers
    /\ env = [GOOGLE_SHEETS_CLIENT_EMAIL |-> TRUE, GOOGLE_SHEETS_PRIVATE_KEY |-> TRUE]

\* what the two handlers do with the requests of the page.  The clock of
\* the generate handler stands still for the first batch and runs for the
\* second, so that the identifiers of the parsed records of two batches
\* differ after the first block; the placeholders have the same identifiers
\* in every batch (lines 408 and 434)
NextHandlers ==
    \/ isGenerating /\ ReadRequest(generateBody)
    \/ \E t \in UITexts : BackendReturns(t, batch.no)
    \/ BackendFails
    \/ isSendingToSheet /\ XReadRequest(sheetsBody)
    \/ XHeaderOk
    \/ \E m \in ProviderErrors : XHeaderFails(m)
    \/ XAppendOk
    \/ \E m \in ProviderErrors : XAppendFails(m)

\* a visit of the page with edits of the role, the hint and the difficulty:
\* one batch is generated and exports are sent until one has appended its rows
NextUI ==
    \/ \E name \in InputNames : \E value \in InputValues(name) : handleInputChange(name, value)
    \/ \E position \in Positions : handlePositionSelect(position)
    \/ batch.no = 0 /\ generateQuestions
    \/ generateQuestionsDone
    \/ \E k \in 1..Len(questions) : toggleQuestionSelection(questions[k].id)
    \/ exportedIds = <<>> /\ sendToSheet
    \/ sendToSheetDone
    \/ NextHandlers

SpecUI == InitUI /\ [][NextUI]_vars

\* the choice of the languages and the generation of one batch
NextLanguages ==
    \/ \E languageId \in Range(availableLanguages) : handleLanguageChange(languageId)
    \/ handleSelectAllLanguages
    \/ \E position \in Positions : handlePositionSelect(position)
    \/ generateQuestions
    \/ generateQuestionsDone
    \/ isGenerating /\ ReadRequest(generateBody)
    \/ \E t \in UITexts : BackendReturns(t, batch.no)
    \/ BackendFails

SpecLanguages == InitUI /\ [][NextLanguages]_vars

\* a session of selections and exports
NextSession ==
    \/ generateQuestions
    \/ generateQuestionsDone
    \/ \E k \in 1..Len(questions) : toggleQuestionSelection(questions[k].id)
    \/ sendToSheet
    \/ sendToSheetDone
    \/ NextHandlers

SpecSession == InitUI /\ [][NextSession]_vars

\* a session of one batch when the finally clauses run: a fetch that has
\* settled is followed by the rest of its handler (lines 175-177 and 222-224)
NextSettled ==
    \/ batch.no = 0 /\ generateQuestions
    \/ generateQuestionsDone
    \/ \E k \in 1..Len(questions) : toggleQuestionSelection(questions[k].id)
    \/ sendToSheet
    \/ sendToSheetDone
    \/ NextHandlers

SpecSettled ==
    /\ InitUI
    /\ [][NextSettled]_vars
    /\ WF_vars(generateQuestionsDone)
    /\ WF_vars(sendToSheetDone)

\* the two handlers side by side, each on requests of its own
NextCalls ==
    \/ \E fd \in FormDatas : ReadRequest(fd)
    \/ ReadFails
    \/ \E t \in UITexts : BackendReturns(t, 0)
    \/ BackendFails
    \/ NextRequest
    \/ NextX

SpecCalls == InitX /\ [][NextCalls]_vars

\* two generation requests handled at the same time, or two export requests
InitConcurrent ==
    /\ InitGenerate
    /\ InitExport
    /\ InitPage
    /\ NoHint
    /\ NoHandlers
    /\ env \in Envs

NextConcurrent ==
    \/ \E h \in Handlers, fd \in ConFormDatas :
          (\A g \in Handlers : exps[g].pc = "idle") /\ GenRead(h, fd)
    \/ \E h \in Handlers, t \in ConTexts, tick \in Ticks : GenReturns(h, t, tick)
    \/ \E h \in Handlers : GenFails(h)
    \/ \E h \in Handlers, body \in ConBodies :
          (\A g \in Handlers : gens[g].pc = "idle") /\ ExpRead(h, body)
    \/ \E h \in Handlers : ExpHeaderOk(h)
    \/ \E h \in Handlers, m \in ProviderErrors : ExpHeaderFails(h, m)
    \/ \E h \in Handlers : ExpAppendOk(h)
    \/ \E h \in Handlers, m \in ProviderErrors : ExpAppendFails(h, m)

SpecConcurrent == InitConcurrent /\ [][NextConcurrent]_vars

\* cleanHint on each of the hint texts
InitHint ==
    /\ InitGenerate
    /\ InitExport
    /\ InitPage
    /\ NoHandlers
    /\ env = [GOOGLE_SHEETS_CLIENT_EMAIL |-> TRUE, GOOGLE_SHEETS_PRIVATE_KEY |-> TRUE]
    /\ hintIn \in Hints
    /\ hintResult = <<>>

NextHint == ApplyCleanHint

SpecHint == InitHint /\ [][NextHint]_vars

(***************************************************************************)
(* The claims.                                                             *)
(***************************************************************************)
\* the generate handler has answered with questions
Answered == pc = "done" /\ response.status = 200

Count == Len(formData.languages)

\* the record for language j of base-question position p (both from 1)
RecordAt(p, j) == response.questions[(p - 1) * Count + j]

Front(s) == SubSeq(s, 1, Len(s) - 1)

Incomplete == Str("Question generation incomplete. Please try again.")
ParseError == Str("Error parsing question. Please regenerate.")

SevenFields ==
    {"title", "problemStatement", "inputFormat", "outputFormat",
     "constraints", "sampleInput", "sampleOutput"}

\* C1: in template or implementation mode (type other than write_code) the
\* parser returns exactly 5 x N records for N requested languages, whatever
\* the number of blocks in the completion.
C1_FivePerLanguage ==
    (Answered /\ formData.type # "write_code")
        => Len(response.questions) = 5 * Count

\* two languages, more than five blocks, one of which fails half-way
C1_Witness ==
    /\ Answered
    /\ formData.type = "complete_code"
    /\ formData.languages = <<"python", "c++">>
    /\ Len(questionBlocks(text)) > 5
    /\ Len(response.questions) = 10

\* C2: in problem-only mode the endpoint returns 5 x N records, 5 groups of
\* N; the records of a group agree on every field but the language tag and
\* the last segment of the identifier, which is the language.
C2_GroupsPerLanguage ==
    (Answered /\ formData.type = "write_code") =>
        /\ Len(response.questions) = 5 * Count
        /\ \A p \in 1..5 : \A j, k \in 1..Count :
              LET a == RecordAt(p, j)
                  b == RecordAt(p, k)
              IN  /\ [a EXCEPT !.id = Front(a.id), !.language = <<>>]
                       = [b EXCEPT !.id = Front(b.id), !.language = <<>>]
                  /\ a.language = Str(formData.languages[j])
                  /\ a.id = Front(a.id) \o <<formData.languages[j]>>
                  /\ (j # k => a.language # b.language /\ a.id # b.id)

\* two languages, a parsed group followed by padded groups
C2_Witness ==
    /\ Answered
    /\ formData.type = "write_code"
    /\ Count = 2
    /\ Len(questionBlocks(text)) \in 1..4
    /\ RecordAt(1, 1).title = <<"t">>
    /\ RecordAt(1, 2).title = <<"t">>
    /\ RecordAt(5, 2).problemStatement = Incomplete

\* C3 as stated: every answer holds 5 x max(1, languageCount) records, so
\* 5 records for an empty language list.
C3_AtLeastFive ==
    Answered => Len(response.questions) = 5 * Max({1, Count})

\* C3, amended: every answer holds 5 x languageCount records, so none for
\* an empty language list, in both modes.
C3_FiveTimesCount ==
    Answered => Len(response.questions) = 5 * Count

\* an empty language list and a completion with blocks
C3_Witness ==
    /\ Answered
    /\ formData.languages = <<>>
    /\ Len(questionBlocks(text)) > 0
    /\ response.questions = <<>>

\* a placeholder record: padding or the record of a caught error
IsPlaceholder(q) == q.id[2] = "fallback"

\* the documented fallback strings of a field
Fallbacks(f) ==
    CASE f = "title" -> {Str("Question " \o ToString(p)) : p \in 1..5}
      [] f = "problemStatement" -> {Str("Problem statement not found")}
      [] f = "inputFormat" -> {Str("Input format not specified")}
      [] f = "outputFormat" -> {Str("Output format not specified")}
      [] f = "constraints" -> {Str("Constraints not specified")}
      [] f = "sampleInput" -> {Str("Sample input not provided")}
      [] f = "sampleOutput" -> {Str("Sample output not provided")}

\* f is a piece of the text t
Extracted(f, t) == \E i \in 1..Len(t) : \E j \in i..Len(t) : f = SubSeq(t, i, j)

\* C4 as stated: in every record each of the seven fields is neither the
\* empty string nor undefined.
C4_NeverEmpty ==
    Answered =>
        \A k \in 1..Len(response.questions) : \A f \in SevenFields :
            response.questions[k][f] \notin {<<>>, Undefined}

\* C4, amended: in a record parsed from a block each of the seven fields is
\* a non-empty piece of the text or the fallback string of the field; in a
\* placeholder record title and problem statement are not empty and the
\* other five fields are the empty string.
C4_ExtractedOrFallback ==
    Answered =>
        \A k \in 1..Len(response.questions) :
            LET q == response.questions[k]
            IN  IF IsPlaceholder(q)
                THEN /\ q.title \notin {<<>>, Undefined}
                     /\ q.problemStatement \in {Incomplete, ParseError}
                     /\ \A f \in SevenFields \ {"title", "problemStatement"} :
                            q[f] = <<>>
                ELSE \A f \in SevenFields :
                        /\ q[f] \notin {<<>>, Undefined}
                        /\ q[f] \in Fallbacks(f) \/ Extracted(q[f], text)

\* a block without its input format, then padding
C4_Witness ==
    /\ Answered
    /\ Count = 1
    /\ ~IsPlaceholder(response.questions[1])
    /\ response.questions[1].title = <<"t">>
    /\ response.questions[1].inputFormat = Str("Input format not specified")
    /\ IsPlaceholder(response.questions[2])
    /\ response.questions[2].inputFormat = <<>>

\* C5: with k < 5 blocks in the completion the records of the positions
\* k+1..5 are placeholders titled "Question <position>" that say the
\* generation is incomplete, in both parsers.
C5_PaddedPositions ==
    (Answered /\ Len(questionBlocks(text)) < 5) =>
        \A p \in (Len(questionBlocks(text)) + 1)..5 : \A j \in 1..Count :
            /\ (p - 1) * Count + j <= Len(response.questions)
            /\ RecordAt(p, j).title = Str("Question " \o ToString(p))
            /\ RecordAt(p, j).problemStatement = Incomplete

\* C6: for the single language python and a completion of one well-formed
\* block that ends with its PYTHON_TEMPLATE: section, the record has the
\* title and problem statement of the block and the whole trimmed section
\* as its implementation.
C6_WholeTemplate ==
    ( /\ Answered
      /\ formData.type = "complete_code"
      /\ formData.languages = <<"python">>
      /\ text = <<DELIM, SP>> \o PythonBlock )
    => /\ response.questions[1].title = <<"t">>
       /\ response.questions[1].problemStatement = <<"p", SP, "q">>
       /\ response.questions[1].implementation = <<"u", "v", SP, "w">>

\* C7: the identifiers of a batch differ, and the batch holds one record
\* for each pair of a base-question position and a requested language.
C7_OnePerPair ==
    Answered =>
        /\ \A a, b \in 1..Len(response.questions) :
              a # b => response.questions[a].id # response.questions[b].id
        /\ Len(response.questions) = 5 * Count
        /\ \A p \in 1..5 : \A j \in 1..Count :
              /\ RecordAt(p, j).language = Str(formData.languages[j])
              /\ Front(RecordAt(p, j).id) = Front(RecordAt(p, 1).id)

\* C8: the position of a block whose parsing fails holds the placeholder
\* records of the caught error, one per requested language, and no record
\* parsed from the block.
C8_OnlyPlaceholders ==
    (Answered /\ formData.type # "write_code") =>
        \A p \in 1..Min({5, Len(questionBlocks(text))}) :
            (\E l \in Range(formData.languages) :
                throwsFor(questionBlocks(text)[p], formData, l))
            => \A j \in 1..Count :
                  /\ RecordAt(p, j).title = Str("Generated Question " \o ToString(p))
                  /\ RecordAt(p, j).problemStatement = ParseError
                  /\ RecordAt(p, j).language = Str(formData.languages[j])

\* C9 as stated: a request ends with status 200 and a body of questions
\* when the request was read and the backend returned a text, and with
\* status 500 and the body {error: 'Failed to generate questions'} otherwise.
C9_TextGivesQuestions ==
    pc = "done" =>
        IF text # NoText
        THEN response.status = 200 /\ DOMAIN response = {"status", "questions"}
        ELSE response = [status |-> 500, error |-> "Failed to generate questions"]

\* C9, amended: a request ends with status 200 and a body of questions when
\* the request was read with a language list and the backend returned a
\* text, and with status 500 and the body {error: 'Failed to generate
\* questions'} otherwise.
C9_TwoOutcomes ==
    pc = "done" =>
        IF text # NoText /\ formData.hasLanguages
        THEN response.status = 200 /\ DOMAIN response = {"status", "questions"}
        ELSE response = [status |-> 500, error |-> "Failed to generate questions"]

\* a completion with a block whose parsing fails, answered all the same
C9_Witness ==
    /\ pc = "done"
    /\ formData.type = "complete_code"
    /\ formData.languages = <<"c++">>
    /\ Len(questionBlocks(text)) > 0
    /\ response.status = 200
    /\ response.questions[1].problemStatement = ParseError

\* a credential is missing
NotConfigured ==
    ~env.GOOGLE_SHEETS_CLIENT_EMAIL \/ ~env.GOOGLE_SHEETS_PRIVATE_KEY

\* the answer reports success with the number of questions in its message
LoggedWithCount ==
    /\ "success" \in DOMAIN xresponse
    /\ xresponse.success
    /\ ToString(Len(xreq.questions)) \in Range(xresponse.message)

\* C10 as stated: every export request read while a credential is missing
\* is answered with success and the count, and calls no spreadsheet backend.
C10_AlwaysLogged ==
    (xpc = "done" /\ NotConfigured /\ xreq # NoBody)
        => LoggedWithCount /\ sheetCalls = <<>>

\* C10, amended: while a credential is missing no request calls the
\* spreadsheet backend, and a request with at least one question and with
\* its input parameters is answered with success and the count.
C10_LoggedOnly ==
    NotConfigured =>
        /\ sheetCalls = <<>>
        /\ ( /\ xpc = "done"
             /\ xreq.hasQuestions /\ Len(xreq.questions) > 0
             /\ xreq.hasParameters )
           => LoggedWithCount

\* two questions sent while the private key is missing
C10_Witness ==
    /\ xpc = "done"
    /\ env.GOOGLE_SHEETS_CLIENT_EMAIL /\ ~env.GOOGLE_SHEETS_PRIVATE_KEY
    /\ Len(xreq.questions) = 2
    /\ xresponse.status = 200
    /\ xresponse.message[1] = "2"
    /\ sheetCalls = <<>>

\* the calls of the request the backend rejected
Rejected(call) == {e \in Range(sheetErrors) : e.call = call}

\* C11: every export request ends in a structured response: status 400 for
\* a missing or empty question list, whatever the credentials and before
\* any spreadsheet call; status 500 with success: false and the provider's
\* error message when the append fails; status 500 with an error body when
\* the request cannot be read or lacks its input parameters.
C11_StructuredResponses ==
    xpc = "done" =>
        /\ xresponse.status \in {200, 400, 500}
        /\ xresponse.status = 200 => "success" \in DOMAIN xresponse /\ xresponse.success
        /\ xresponse.status # 200 => "error" \in DOMAIN xresponse
        /\ (xreq # NoBody /\ (~xreq.hasQuestions \/ xreq.questions = <<>>))
              => /\ xresponse = [status |-> 400, error |-> "No questions provided"]
                 /\ sheetCalls = <<>>
        /\ \A e \in Rejected("append") :
              /\ xresponse.status = 500
              /\ "success" \in DOMAIN xresponse /\ ~xresponse.success
              /\ "details" \in DOMAIN xresponse /\ xresponse.details = e.message
        /\ (xreq = NoBody \/ (xreq.questions # <<>> /\ ~xreq.hasParameters))
              => xresponse.status = 500

\* the append is rejected for the quota, after the header update went through
C11_Witness ==
    /\ xpc = "done"
    /\ Rejected("update") = {}
    /\ Rejected("append") = {[call |-> "append", message |-> "Quota exceeded"]}
    /\ xresponse.status = 500
    /\ xresponse.details = "Quota exceeded"

\* C12: a rejected header update does not end the export: the append is
\* called all the same, and when the append goes through the response is the
\* success summary with the number of rows, as it is after a header update
\* that went through.
C12_HeaderFailureIgnored ==
    /\ Rejected("update") # {} => xpc \in {"append", "done"} /\ "append" \in Range(sheetCalls)
    /\ (xpc = "done" /\ "append" \in Range(sheetCalls) /\ Rejected("append") = {})
          => /\ xresponse.status = 200
             /\ xresponse.success
             /\ xresponse.updatedRows = Len(xreq.questions)
             /\ xresponse.message[1] = ToString(Len(xreq.questions))

\* the header update is rejected, the append goes through
C12_Witness ==
    /\ xpc = "done"
    /\ Rejected("update") # {}
    /\ Rejected("append") = {}
    /\ xresponse.status = 200
    /\ xresponse.updatedRows = 2

\* a field the record has, with text in it
Present(f) == f \notin {<<>>, Undefined}

\* the six columns of the row of record q under the parameters ip
SixColumns(row, q, ip) ==
    /\ Len(row) = 6
    /\ row[1] = <<ip.positionName>>
    /\ row[2] = IF Present(q.language)
                THEN [k \in 1..Len(q.language) |-> toUpperCase(q.language[k])]
                ELSE <<"N/A">>
    /\ row[3] = q.problemStatement
                \o <<NL, NL, "Example:", NL, "Input: ">> \o q.sampleInput
                \o <<NL, "Output: ">> \o q.sampleOutput
                \o <<NL, NL, "Constraints:", NL>> \o q.constraints
                \o (IF Present(q.implementation) THEN <<NL, NL>> \o q.implementation
                    ELSE <<>>)
    /\ row[4] = IF ip.hint # "" THEN <<ip.hint>>
                ELSE IF Present(q.hint) THEN q.hint ELSE <<>>
    /\ row[5] = <<ip.type>>
    /\ row[6] = <<ip.difficultyLevel>>

DataRows == { k \in 1..Len(sheet) : sheet[k] # headerRow }

\* the four parameters of ip are those of the request that produced the batch
SameParameters(ip) ==
    /\ ip.positionName = batch.request.positionName
    /\ ip.type = batch.request.type
    /\ ip.difficultyLevel = batch.request.difficultyLevel
    /\ ip.hint = batch.request.hint

\* C14: the role, mode, difficulty and request hint of an export are those
\* of the generation request that produced the exported records: the export
\* request the handler reads carries them, whatever was edited in the form
\* since, and so does every row written
C14_OriginalParameters ==
    /\ (xpc # "idle" /\ batch.no > 0) => SameParameters(xreq.inputParameters)
    /\ \A k \in DataRows :
          /\ sheet[k][1] = Str(batch.request.positionName)
          /\ sheet[k][5] = Str(batch.request.type)
          /\ sheet[k][6] = Str(batch.request.difficultyLevel)
          /\ batch.request.hint # "" => sheet[k][4] = Str(batch.request.hint)

\* C15: over the selections and exports of a session no record of a batch
\* is appended by more than one export that succeeded
C15_ConsumedOnce ==
    \A i, j \in 1..Len(exportedIds) :
        i # j => exportedIds[i] \cap exportedIds[j] = {}

\* C16: cleanHint applied to what cleanHint returned gives it back unchanged
C16_Idempotent ==
    Len(hintResult) = 2 => hintResult[2] = hintResult[1]

\* the calls of the spreadsheet backend the export handler has made for its
\* request, the client construction left out
BackendCalls == SelectSeq(sheetCalls, LAMBDA c : c # "auth")

\* the request of the generate handler can be turned into a prompt
Promptable == formData # NoFormData /\ (formData.type = "write_code" \/ formData.hasLanguages)

\* C17 as stated: a generation request that was answered has made exactly
\* one backend call; an export request makes at most one header update and
\* one append, in this order, and no call after one of them has failed
C17_NoCallAfterFailure ==
    /\ pc = "done" => genCalls = 1
    /\ BackendCalls \in {<<>>, <<"update">>, <<"update", "append">>}
    /\ Rejected("update") # {} => BackendCalls = <<"update">>
    /\ Rejected("append") # {} => xpc = "done"

\* C17: nothing is retried.  A generation request makes at most one backend
\* call: exactly one once its body is read and a prompt can be built from
\* it, also when the call fails, and none otherwise.  An export request
\* makes at most one header update and one append, in this order; after a
\* failed header update the append is still made, once, and after a failed
\* append no call follows
C17_NothingRetried ==
    /\ genCalls <= 1
    /\ pc = "calling" => genCalls = 1
    /\ pc = "done" => genCalls = (IF Promptable THEN 1 ELSE 0)
    /\ BackendCalls \in {<<>>, <<"update">>, <<"update", "append">>}
    /\ Rejected("update") # {} => BackendCalls = <<"update", "append">>
    /\ Rejected("append") # {} => xpc = "done"

C17_Witness ==
    /\ pc = "done" /\ response = GenerateError /\ genCalls = 1
    /\ xpc = "done" /\ Rejected("update") # {} /\ Rejected("append") # {}
    /\ BackendCalls = <<"update", "append">>

\* the section keywords a prompt can ask for
TemplateKeys == {toUpperCase(l) \o "_TEMPLATE:" : l \in Languages}
ImplementationKeys == {toUpperCase(l) \o "_IMPLEMENTATION:" : l \in Languages}

\* the code sections the format of prompt p asks for: the section keywords
\* before the samples
CodeSections(p) ==
    LET S == {k \in 1..Len(p) : p[k] = "SAMPLE TEMPLATE FORMATS (use exact style):"}
        format == IF S = {} THEN p ELSE SubSeq(p, 1, Min(S) - 1)
    IN  SelectSeq(format, LAMBDA t : t \in TemplateKeys \cup ImplementationKeys)

SectionsOf(fd, suffix) ==
    [k \in 1..Len(fd.languages) |-> toUpperCase(fd.languages[k]) \o suffix]

\* C19 as stated: the full-implementation mode can be selected, and its
\* prompt asks for one <LANG>_IMPLEMENTATION: section per requested language
\* (the request type generateCombinedPrompt treats as from scratch is
\* write_code); the template mode asks for one <LANG>_TEMPLATE: section each
C19_ThreeModes ==
    pc = "calling" =>
        /\ formData.type = "write_code" =>
               CodeSections(prompt) = SectionsOf(formData, "_IMPLEMENTATION:")
        /\ formData.type = "complete_code" =>
               CodeSections(prompt) = SectionsOf(formData, "_TEMPLATE:")

\* C19: the request type and the language list determine the prompt, and two
\* modes can be selected: type write_code is problem-only, its prompt asks
\* for no code section; every other type is the template mode, its prompt
\* asks for one <LANG>_TEMPLATE: section per requested language, in the
\* order of the list.  No prompt asks for a <LANG>_IMPLEMENTATION: section
C19_TwoModes ==
    pc = "calling" =>
        /\ prompt = promptOf(formData)
        /\ formData.type = "write_code" => CodeSections(prompt) = <<>>
        /\ formData.type # "write_code" =>
               CodeSections(prompt) = SectionsOf(formData, "_TEMPLATE:")
        /\ \A k \in 1..Len(prompt) : prompt[k] \notin ImplementationKeys

C19_Witness ==
    /\ pc = "calling"
    /\ formData.type = "write_code"
    /\ formData.languages = <<"python", "java">>
    /\ CodeSections(prompt) = <<>>

\* the text of block b after the section keyword of l, up to the nearest
\* following section keyword of another requested language or the end of
\* the block, trimmed
SectionText(b, fd, l) ==
    LET i == Min({k \in 1..Len(b) : b[k] = langKey(fd, l)})
        e == Min({k \in (i + 1)..(Len(b) + 1) : k = Len(b) + 1 \/ b[k] \in otherKeys(fd, l)})
    IN  Trim(SubSeq(b, i + 1, e - 1))

\* block b holds a section for each requested language
HoldsSections(b, fd) ==
    \A l \in Range(fd.languages) : \E k \in 1..Len(b) : b[k] = langKey(fd, l)

\* C20: in a block that holds a section for each of two or more requested
\* languages, the implementation of the record of language L is the text
\* after L's section keyword up to the nearest following section keyword of
\* another requested language, or to the end of the block, trimmed
C20_SectionBounds ==
    ( /\ Answered
      /\ formData.type = "complete_code"
      /\ Len(formData.languages) >= 2
      /\ Len(questionBlocks(text)) = 1
      /\ HoldsSections(questionBlocks(text)[1], formData) )
    => \A j \in 1..Len(formData.languages) :
          RecordAt(1, j).implementation =
              SectionText(questionBlocks(text)[1], formData, formData.languages[j])

\* the response a generation request gets when it is handled alone: sent is
\* its body, outcome, text and tick what the backend did with its call
AloneGenerate(g) ==
    IF g.sent.type # "write_code" /\ ~g.sent.hasLanguages THEN GenerateError
    ELSE IF g.outcome = "rejected" \/ ~g.sent.hasLanguages THEN GenerateError
    ELSE [status |-> 200, questions |-> generated(g.text, g.sent, g.tick)]

\* the response an export request gets when it is handled alone
AloneExport(x) ==
    IF ~x.sent.hasQuestions \/ Len(x.sent.questions) = 0 THEN BadRequest
    ELSE IF ~env.GOOGLE_SHEETS_CLIENT_EMAIL \/ ~env.GOOGLE_SHEETS_PRIVATE_KEY
    THEN (IF x.sent.hasParameters THEN LoggedOnly(x.sent.questions) ELSE ProcessError)
    ELSE IF ~x.sent.hasParameters THEN SheetsError(x.sent.questions, TypeErrorMessage)
    ELSE IF x.outcome = "appended"
    THEN Exported(x.sent.questions, Len(x.sent.questions))
    ELSE SheetsError(x.sent.questions, x.outcome)

\* the rows of the export of handler h, as submitted
RowsOf(h) == valuesOf(exps[h].sent.questions, exps[h].sent.inputParameters)

\* the sheet holds rows from its row o + 1 on, one after the other
HeldAt(o, rows) ==
    /\ o + Len(rows) <= Len(sheet)
    /\ \A k \in 1..Len(rows) : sheet[o + k] = rows[k]

\* C18: two requests handled at the same time do not affect each other:
\* each response of two generation requests, and of two export requests, is
\* the one the request gets when handled alone, and once two exports have
\* both appended, the sheet holds the rows of each, contiguous and in the
\* submitted order, at places that do not overlap
C18_Independent ==
    /\ \A h \in Handlers :
          gens[h].pc = "done" => gens[h].response = AloneGenerate(gens[h])
    /\ \A h \in Handlers :
          exps[h].pc = "done" => exps[h].response = AloneExport(exps[h])
    /\ (\A h \in Handlers : exps[h].outcome = "appended") =>
          \E o1, o2 \in 0..Len(sheet) :
              /\ HeldAt(o1, RowsOf(1))
              /\ HeldAt(o2, RowsOf(2))
              /\ o1 + Len(RowsOf(1)) <= o2 \/ o2 + Len(RowsOf(2)) <= o1

\* none of the three patterns gives code for language l in block b
NothingFound(b, fd, l) ==
    /\ exactMatch(b, fd, l) = <<>>
    /\ pattern2Throws(fd) \/ langMatch(b, fd, l) = <<>>
    /\ codeBlockMatch(b) = <<>>

\* C21: in template mode every record of a block that is present in the
\* text has a non-empty implementation, and where no pattern finds code for
\* its language it is the skeleton of the language, or the generic
\* placeholder that names it
C21_SkeletonOrPlaceholder ==
    ( /\ Answered
      /\ formData.type = "complete_code"
      /\ Len(questionBlocks(text)) = 1 )
    => \A j \in 1..Count :
          /\ RecordAt(1, j).implementation \notin {<<>>, Undefined}
          /\ NothingFound(questionBlocks(text)[1], formData, formData.languages[j])
                => RecordAt(1, j).implementation = fallbackTemplates(formData.languages[j])

\* the hint text after the replacements and the trim (lines 261-279)
Stripped(h) == Trim(ApplyPatterns(h, 1))

\* C22 as stated: the cleaned hint is the first sentence of the stripped
\* text exactly when its length is from 10 to 200, both included, and the
\* stripped text cut to 200 characters otherwise
C22_WindowIncluded ==
    Len(hintResult) >= 1 =>
        hintResult[1] =
            IF /\ CharLen(FirstSentence(Stripped(hintIn))) >= HintMin
               /\ CharLen(FirstSentence(Stripped(hintIn))) <= HintMax
            THEN FirstSentence(Stripped(hintIn))
            ELSE Trim(SliceChars(Stripped(hintIn), HintMax))

\* C22: the cleaned hint is the first sentence of the stripped text exactly
\* when its length is more than 10 and less than 200 and it holds neither
\* '{' nor '('; otherwise it is the stripped text cut to 200 characters and
\* trimmed.  It is never longer than 200 characters
C22_WindowExcluded ==
    Len(hintResult) >= 1 =>
        /\ hintResult[1] =
              IF /\ CharLen(FirstSentence(Stripped(hintIn))) > HintMin
                 /\ CharLen(FirstSentence(Stripped(hintIn))) < HintMax
                 /\ \A i \in 1..Len(FirstSentence(Stripped(hintIn))) :
                        FirstSentence(Stripped(hintIn))[i] \notin {"{", "("}
              THEN FirstSentence(Stripped(hintIn))
              ELSE Trim(SliceChars(Stripped(hintIn), HintMax))
        /\ CharLen(hintResult[1]) <= HintMax

\* a first sentence of exactly ten characters is not taken, and a text of
\* more than 200 characters is cut
C22_Witness ==
    /\ hintIn = <<"Use a heap", ".", SP, LongWord>>
    /\ Len(hintResult) >= 1
    /\ hintResult[1] = <<"Use a heap", ".", SP, LongWord>>

\* the labels of a block, and the record field each of the seven starts
KnownLabels ==
    {"Title:", "Problem Statement:", "Input Format:", "Output Format:",
     "Constraints:", "Sample Input:", "Sample Output:", "Hint:",
     "COMPLETE IMPLEMENTATIONS:", "FUNCTION TEMPLATES:"}

LabelOf(f) ==
    CASE f = "title" -> "Title:"
      [] f = "problemStatement" -> "Problem Statement:"
      [] f = "inputFormat" -> "Input Format:"
      [] f = "outputFormat" -> "Output Format:"
      [] f = "constraints" -> "Constraints:"
      [] f = "sampleInput" -> "Sample Input:"
      [] f = "sampleOutput" -> "Sample Output:"

\* the text from the first occurrence of label to the next known label after
\* it, or to the end of block b; trimmed
RunAfter(b, label) ==
    LET at == Min({i \in 1..Len(b) : b[i] = label})
        N == {i \in (at + 1)..Len(b) : b[i] \in KnownLabels}
    IN  Trim(SubSeq(b, at + 1, IF N = {} THEN Len(b) ELSE Min(N) - 1))

\* C23: a field whose label occurs in the block followed by non-blank text
\* is the run from its label to the next known label after it (or to the end
\* of the block), trimmed, whatever other labels the block holds
C23_Independent ==
    ( /\ Answered
      /\ Count >= 1
      /\ Len(questionBlocks(text)) = 1
      /\ \A j \in 1..Count : ~BadRegex(formData.languages[j]) )
    => \A f \in SevenFields :
          LET b == questionBlocks(text)[1]
          IN  ( /\ \E i \in 1..Len(b) : b[i] = LabelOf(f)
                /\ RunAfter(b, LabelOf(f)) # <<>> )
              => RecordAt(1, 1)[f] = RunAfter(b, LabelOf(f))

\* record q stands at base-question position p (from 1): it was parsed from
\* block p, identifier segment p - 1, or it is the placeholder of position p,
\* titled 'Question p'
AtPosition(q, p) ==
    IF q.problemStatement = Incomplete
    THEN q.id[2] = "fallback" /\ q.title = Str("Question " \o ToString(p))
    ELSE q.id[3] = ToString(p - 1)

\* C24: with N >= 1 languages the record at index k (from 0) carries the
\* language languages[k mod N] and stands at position floor(k / N) + 1, in
\* both modes and for every text
C24_BlockThenLanguage ==
    (Answered /\ Count >= 1)
    => \A k \in 0..(Len(response.questions) - 1) :
          /\ response.questions[k + 1].language
                = Str(formData.languages[(k % Count) + 1])
          /\ AtPosition(response.questions[k + 1], (k \div Count) + 1)

\* a language list a generation request may carry
GoodLanguages(ls) ==
    /\ Len(ls) >= 1
    /\ \A a, b \in 1..Len(ls) : a # b => ls[a] # ls[b]
    /\ Range(ls) \subseteq Range(availableLanguages)

\* C25: every generation request the page sends carries a non-empty,
\* duplicate-free list of available language ids, the one of the form; with
\* no language selected, pressing Generate sends nothing and changes neither
\* the questions, the selection nor the in-progress flag
C25_LanguagesSent ==
    [][ /\ (~isGenerating /\ isGenerating')
             => /\ GoodLanguages(generateBody'.languages)
                /\ generateBody'.languages = uiFormData.languages
        /\ (~isGenerating /\ Len(uiFormData.languages) = 0)
             => ~isGenerating' /\ generateBody' = generateBody
        /\ (generateQuestions /\ Len(uiFormData.languages) = 0)
             => UNCHANGED <<questions, selectedQuestions, isGenerating>> ]_vars

\* a request with both languages, in the order of the clicks, after the list
\* had been emptied
C25_Witness ==
    /\ isGenerating
    /\ pc = "calling"
    /\ formData.languages = <<"python", "javascript">>

\* C26: at no time are two generation requests outstanding, nor two export
\* requests; isGenerating (isSendingToSheet) is true whenever its request is
\* outstanding, and returns to false once the request has succeeded or failed
C26_OneOutstanding ==
    /\ [](/\ outstanding.generate <= 1
          /\ outstanding.sheets <= 1
          /\ (outstanding.generate = 1 \/ pc # "idle") => isGenerating
          /\ (outstanding.sheets = 1 \/ xpc # "idle") => isSendingToSheet)
    /\ (isGenerating /\ pc = "done") ~> ~isGenerating
    /\ (isSendingToSheet /\ xpc = "done") ~> ~isSendingToSheet

\* a generation request that has failed and is not yet settled on the page
C26_Witness ==
    /\ isGenerating /\ pc = "done" /\ response.status # 200
    /\ outstanding = [generate |-> 1, sheets |-> 0]

\* C27: when a generation or an export request fails, the page takes it with
\* the questions, the selection and the form as they were; only the
\* in-progress flag of the request changes
C27_FailureFrame ==
    [][ /\ (isGenerating /\ pc = "done" /\ response.status # 200 /\ ~isGenerating')
             => UNCHANGED <<questions, selectedQuestions, uiFormData, isSendingToSheet>>
        /\ (isSendingToSheet /\ xpc = "done" /\ xresponse.status # 200
                /\ ~isSendingToSheet')
             => UNCHANGED <<questions, selectedQuestions, uiFormData, isGenerating>> ]_vars

\* the response of a failed export arrives at a page with a selection
C27_Witness ==
    /\ isSendingToSheet
    /\ xpc = "done"
    /\ xresponse.status # 200
    /\ selectedQuestions # {}
    /\ questions # <<>>

\* the ids of the records on display
DisplayedIds == {questions[k].id : k \in 1..Len(questions)}

\* C28: in every state of the page the selected ids are ids of displayed
\* questions
C28_SelectionDisplayed == selectedQuestions \subseteq DisplayedIds

\* a second batch has replaced the first while an export of records of the
\* first is outstanding, and a record of the second is selected
C28_Witness ==
    /\ batch.no = 2
    /\ isSendingToSheet
    /\ sheetsBody.batchNo = 1
    /\ selectedQuestions # {}

\* an export request is sent with the displayed records whose ids are
\* selected, in the order of the display; with no selection none is sent
SentAsSelected ==
    /\ (~isSendingToSheet /\ isSendingToSheet')
          => /\ selectedQuestions # {}
             /\ sheetsBody'.questions
                   = SelectSeq(questions, LAMBDA q : q.id \in selectedQuestions)
             /\ UNCHANGED <<questions, selectedQuestions>>
    /\ (~isSendingToSheet /\ selectedQuestions = {})
          => ~isSendingToSheet' /\ sheetsBody' = sheetsBody

\* the export that succeeds deselects records it has carried, no others
DeselectsExported ==
    (isSendingToSheet /\ xpc = "done" /\ xresponse.status = 200 /\ ~isSendingToSheet')
    => /\ sheetsBody.batchNo = batch.no
       /\ (selectedQuestions \ selectedQuestions')
             \subseteq {sheetsBody.questions[k].id : k \in 1..Len(sheetsBody.questions)}

\* C29: an export request carries exactly the displayed records selected when
\* Send is pressed, in display order; with an empty selection nothing is sent;
\* a successful export deselects only records that were part of that export
C29_ExactlySelected == [][SentAsSelected /\ DeselectsExported]_vars

\* question.id.replace(/-[^-]+$/, ''): the identifier without its last
\* segment (src/unnamed/part_000 lines 233 and 248)
baseIdOf(id) == Front(id)

\* lines 228-250: the groups are numbered in the order in which their base
\* ids first occur in qs; an id of no group gets 1
getQuestionNumber(qs, questionId) ==
    LET G == {k \in 1..Len(qs) : baseIdOf(qs[k].id) = baseIdOf(questionId)}
    IN  IF G = {} THEN 1
        ELSE Cardinality({baseIdOf(qs[k].id) : k \in 1..Min(G)})

\* C30: in every batch returned two records have the same stripped id exactly
\* when they are variants of the same base question, and getQuestionNumber
\* gives the variants of the j-th base question the number j and no other
\* record that number
C30_BaseRecovered ==
    (Answered /\ Count >= 1)
    => \A a, b \in 1..Len(response.questions) :
          /\ (baseIdOf(response.questions[a].id) = baseIdOf(response.questions[b].id))
                <=> ((a - 1) \div Count = (b - 1) \div Count)
          /\ getQuestionNumber(response.questions, response.questions[a].id)
                = ((a - 1) \div Count) + 1
====
